---- MODULE Spec2Model ----
(***************************************************************************)
(* Scrape orchestration core of sitemap_scrape:                            *)
(*   - ST_Scraper (page fetcher + single-URL wrapper) and its BT_Scraper   *)
(*     and Tabla_Scraper subclasses,                                       *)
(*   - process_txt_async (batch orchestrator),                             *)
(*   - RetryScraper.retry_file (retry sweeper),                            *)
(*   - _run_one_file / main (parallel file scheduler),                     *)
(*   - remove_duplicates_jsonl_by_url (clean-up of a directory of logs).   *)
(*                                                                         *)
(* Spec      : one process_txt_async run, at the granularity of asyncio    *)
(*             suspension points.                                          *)
(* SpecLive  : Spec without the kill, under the scheduling of asyncio.      *)
(* SpecBatch : sequences of orchestrator runs and sweeps over one batch.   *)
(* SpecRuns  : sequences of orchestrator runs over one batch, no sweep.    *)
(* SpecFiles : the file scheduler and its workers.                         *)
(* SpecCall  : one scrape_single_url call over all outcomes of its fetches.*)
(* SpecLoad  : the two readers of persisted logs, over logs with any lines.*)
(* SpecSession: one scraper session from __aenter__ to __aexit__.          *)
(* SpecPool  : the worker pool of main, for the pool size of each variant.  *)
(* SpecWorker: one _run_one_file call: the run of its batch, with failing  *)
(*             log files, and the rename.                                  *)
(* SpecRetry : retry_file over failure logs that can fail to be read.      *)
(* SpecSweep : one retry_file at the granularity of its file operations,   *)
(*             with a kill.                                                *)
(* SpecDedup : remove_duplicates_jsonl_by_url applied to one directory,    *)
(*             once and again.                                             *)
(***************************************************************************)
EXTENDS Integers, Sequences, FiniteSets, TLC

\* ---------------------------------------------------------------- bounds
\* distinct URLs, lines of an input file, largest concurrency, operations
\* (orchestrator runs and sweeps) applied to one batch, input files
NumUrls == 2
NumLines == 2
MaxConc == 2
MaxOps == 2
NumFiles == 5

\* ------------------------------------------------------ program constants
\* max_retries of ST_Scraper.scrape_single_url
max_retries == 3
\* worker processes of the pool in main
MAX_PARALLEL_TXT_FILES == 4

Urls == 1..NumUrls
\* a line of the input that is empty after strip()
Blank == 0
Variants == {"ST", "BT", "Tabla"}
\* the scraper classes: those and straits_times/asyncscraper.py's AsyncScraper
Scrapers == Variants \cup {"Async"}

\* ensure_ascii as each variant's file worker passes it to process_txt_async
EnsureAscii(v) == v # "Tabla"

VARIABLES
    variant,            \* scraper_class
    concurrency,        \* concurrency
    input,              \* lines of txt_path
    readable,           \* whether txt_path.read_text() succeeds
    out_log, err_log,   \* flushed content of out_file / err_file
    out0, err0,         \* the two logs as the operation in progress found them
    orch_pc,            \* position of process_txt_async
    urls,               \* urls after filtering: one task each
    tasks,              \* scrape_tasks: state of each scrape_single_url
    semaphore,          \* self.semaphore._value
    context_semaphore,  \* self.context_semaphore._value
    holders,            \* tasks inside "async with self.semaphore"
    completed,          \* results in completion order (as_completed)
    consumed,           \* number of results the loop has taken
    pending,            \* item being written, not yet flushed
    sweep_pc,           \* position of RetryScraper.retry_file
    lines,              \* retry_file: entries loaded from the failure log
    entry,              \* retry_file: index of the next entry
    remaining,          \* retry_file: entries that failed again
    hist,               \* operations ended so far, with how each ended
    unseen, seen,       \* input files in UNSEEN_DIR / SEEN_DIR
    wpc,                \* position of each file's _run_one_file call
    wret,               \* what process_txt_async did in that call
    wren,               \* what txt_file.rename did in that call
    status,             \* the string _run_one_file returned
    results,            \* statuses main has received from pool.map
    main_pc,            \* position of main
    contexts,           \* self.contexts: indices of the open browser contexts
    pages,              \* pages open in the browser: <<task, context index>>
    launches,           \* browser launches of the run (chromium.launch calls)
    call,               \* one scrape_single_url call followed on its own
    fetched,            \* what each _fetch_page_content call of `call` gave
    writable,           \* what opening and writing the two logs does
    err_readable,       \* whether err_file can be read to its end
    out_exists,         \* out_file.exists()
    err_exists,         \* err_file.exists()
    directory,          \* dedup: the files of `directory`, name |-> lines
    dir0,               \* dedup: the directory as the call in progress found it
    filenames,          \* dedup: names of os.listdir(directory) still to visit
    dedup_pc,           \* position of remove_duplicates_jsonl_by_url
    session             \* one scraper session followed from __aenter__ to __aexit__

dedupVars == <<directory, dir0, filenames, dedup_pc>>
\* what no operation of the scrapers changes
cfgVars == <<variant, concurrency, input, readable, writable, err_readable,
             dedupVars>>
logVars == <<out_log, err_log>>
snapVars == <<out0, err0>>
sessVars == <<tasks, semaphore, context_semaphore, holders>>
loopVars == <<completed, consumed, pending>>
sweepVars == <<sweep_pc, lines, entry, remaining>>
schedVars == <<unseen, seen, wpc, wret, wren, status, results, main_pc>>
browserVars == <<contexts, pages, launches>>
callVars == <<call, fetched>>
existVars == <<out_exists, err_exists>>
batchVars == <<variant, concurrency, input, readable, out_log, err_log, out0,
               err0, orch_pc, urls, tasks, semaphore, context_semaphore,
               holders, completed, consumed, pending, sweep_pc, lines, entry,
               remaining, hist, contexts, pages, launches, call, fetched, writable,
               err_readable, out_exists, err_exists, session, directory, dir0,
               filenames, dedup_pc>>

vars == <<batchVars, schedVars>>

\* ---------------------------------------------------------------- helpers
RECURSIVE SeqsUpTo(_, _)
SeqsUpTo(S, n) ==
    IF n = 0 THEN {<<>>}
    ELSE LET shorter == SeqsUpTo(S, n - 1)
         IN shorter \cup {Append(s, x) : s \in {q \in shorter : Len(q) = n - 1}, x \in S}

RECURSIVE SelectIdx(_, _, _)
SelectIdx(s, keep, i) ==
    IF i > Len(s) THEN <<>>
    ELSE IF keep[i] THEN <<s[i]>> \o SelectIdx(s, keep, i + 1)
    ELSE SelectIdx(s, keep, i + 1)

\* the elements s[i] with keep[i], in order
Filter(s, keep) == SelectIdx(s, keep, 1)

Last(s) == s[Len(s)]

\* ------------------------------------------------------- records and logs
\* json.dumps(item, ensure_ascii=...) + "\n" of a success record: a Unicode
\* line boundary (U+2028, U+2029, U+0085) inside a string is escaped when
\* ensure_ascii holds and written raw otherwise.
DumpOk(u, sep, ascii) == [url |-> u, raw |-> sep /\ ~ascii]

\* json.dumps of ("ERROR", url, repr(e), traceback)
DumpErr(u) == [url |-> u]

\* The same failure tuple in another spelling than json.dumps with its
\* defaults gives: written with ensure_ascii=False and a non-ASCII character
\* in the message (Tabla), or by hand with other spacing or escapes.
DumpErrRaw(u) == [url |-> u, spelling |-> "raw"]

\* parsed = json.loads(line) of a failure tuple: the value, whatever the
\* spelling of the line
parsed(line) == [f \in DOMAIN line \ {"spelling"} |-> line[f]]

\* json.dumps(line, default=str) + "\n" of a loaded entry: the line that
\* spells the value the way json.dumps does (a line without a `spelling`
\* mark stands for that value)
json_dumps(e) == e

\* A line of a log that no json.dumps of the program wrote whole (a record
\* cut by a kill in mid-write, a line written by hand or by another tool),
\* by what json.loads makes of it; `url` is the URL its text mentions.
\*   "invalid"    not JSON: json.JSONDecodeError
\*   "scalar"     JSON that is neither an object nor an array
\*   "short"      an array of length <= 1
\*   "nourl"      an object without the key "article_url"
\*   "unhashable" an object whose "article_url" is an array or an object
MalformedKinds == {"invalid", "scalar", "short", "nourl", "unhashable"}
Malformed(k, u) == [json |-> k, url |-> u]

\* json.loads(line) of one line as `for line in f` gives it: "record" is an
\* object with a string "article_url", "tuple" an array of length > 1
json_loads(line) ==
    IF "json" \in DOMAIN line THEN line.json
    ELSE IF "raw" \in DOMAIN line THEN "record"
    ELSE "tuple"

\* json.loads of the pieces read_text().splitlines() makes of the line: a
\* line holding a raw line boundary is split into fragments, none of which
\* is valid JSON
json_loads_splitlines(line) ==
    IF "raw" \in DOMAIN line /\ line.raw THEN "invalid" ELSE json_loads(line)

\* the resume filter of process_txt_async: the article_url of every line of
\* the success log that parses to an object holding that key
processed_urls(log) ==
    {log[i].url : i \in {j \in DOMAIN log : json_loads_splitlines(log[j]) = "record"}}

\* processed_urls.add(rec["article_url"]) raises TypeError on a value that
\* cannot be hashed; only json.JSONDecodeError is caught
filter_raises(log) ==
    \E i \in DOMAIN log : json_loads_splitlines(log[i]) = "unhashable"

\* the URLs that have a record in a log
LoggedUrls(log) == {log[i].url : i \in DOMAIN log}

\* number of records of URL u in a log
CountUrl(log, u) == Cardinality({i \in DOMAIN log : log[i].url = u})

\* ------------------------------------------------------------ page fetcher
NoCtx == -1

\* a scrape_single_url coroutine that has just been created
NewTask(u) ==
    [url |-> u, pc |-> "base", attempt |-> 0, phase |-> "wait", ctx |-> NoCtx,
     soup |-> "unset", result |-> "none"]

\* process_txt_async is inside its "async with" block
Running == orch_pc \in {"loop", "write"}

TaskIds == DOMAIN tasks

\* a task between "async with self.semaphore" and its exit
InFetch(t) == tasks[t].phase \in {"jitter", "open", "nav", "ready", "close"}

\* a task whose page is open on its context (new_page returned, close not yet)
PageOpen(t) == tasks[t].phase \in {"nav", "ready", "close"}

\* a task in page.goto / page.wait_for_selector
Navigating(t) == tasks[t].phase \in {"nav", "ready"}

\* what a step of a task leaves alone outside the scraper session
taskFrame == <<cfgVars, logVars, snapVars, orch_pc, urls, sweepVars, hist, schedVars,
               callVars, existVars, session, contexts, launches>>

\* mutant: the semaphore lets every caller in
SlotFreeAlways == TRUE

\* asyncio.Semaphore.acquire of self.semaphore returns only while _value > 0
SlotFree == semaphore > 0

\* _get_available_context: "async with self.context_semaphore" takes a slot
\* (without suspension: the semaphore has `concurrency` slots and no caller
\* is ever suspended inside the block), reads _value, and gives the slot back.
get_available_context ==
    LET value == context_semaphore - 1
        context_index == concurrency - value - 1
    IN context_index % concurrency

\* "async with self.semaphore": entry
Acquire(t) ==
    /\ Running
    /\ tasks[t].pc \in {"base", "follow"}
    /\ tasks[t].phase = "wait"
    /\ SlotFree
    /\ semaphore' = semaphore - 1
    /\ holders' = holders \cup {t}
    /\ tasks' = [tasks EXCEPT ![t].phase = "jitter"]
    /\ UNCHANGED <<taskFrame, pages, context_semaphore, loopVars>>

\* asyncio.sleep(random.uniform(0.1, 0.75)) is over; the context is selected
\* and context.new_page() is started
Jitter(t) ==
    /\ Running
    /\ tasks[t].phase = "jitter"
    /\ tasks' = [tasks EXCEPT ![t].phase = "open", ![t].ctx = get_available_context]
    /\ UNCHANGED <<taskFrame, pages, semaphore, context_semaphore, holders, loopVars>>

\* a task that has returned `result` ("ok", "err") or raised ("exc")
Done(task, result) ==
    [NewTask(task.url) EXCEPT !.pc = "done", !.phase = "-", !.result = result]

\* mutant: range(max_retries + 1)
MaxRetriesOneMore(v) == max_retries + 1

\* max_retries of scrape_single_url: ST_Scraper (and its subclasses) 3,
\* AsyncScraper 2
MaxRetries(v) == IF v = "Async" THEN 2 ELSE max_retries

\* mutant: soup.find on None after the last attempt is not caught
ST_scrape_single_url_uncaught(v, task, soup) ==
    IF soup = "art"
    THEN {[task EXCEPT !.pc = "extracted", !.phase = "-", !.ctx = NoCtx,
                       !.soup = "unset"],
          Done(task, "err")}
    ELSE IF soup = "raise"
    THEN {Done(task, "err")}
    ELSE IF task.attempt + 1 < MaxRetries(v)
    THEN {[task EXCEPT !.attempt = task.attempt + 1, !.phase = "wait",
                       !.ctx = NoCtx, !.soup = "unset"]}
    ELSE {Done(task, IF soup = "none" THEN "exc" ELSE "err")}

\* mutant: a document without <article> ends the loop like one with it
ST_scrape_single_url_noretry(v, task, soup) ==
    IF soup = "art"
    THEN {[task EXCEPT !.pc = "extracted", !.phase = "-", !.ctx = NoCtx,
                       !.soup = "unset"],
          Done(task, "err")}
    ELSE IF soup \in {"raise", "noart"}
    THEN {Done(task, "err")}
    ELSE IF task.attempt + 1 < MaxRetries(v)
    THEN {[task EXCEPT !.attempt = task.attempt + 1, !.phase = "wait",
                       !.ctx = NoCtx, !.soup = "unset"]}
    ELSE {Done(task, "err")}

\* What the base scrape_single_url does once a _fetch_page_content call has
\* returned `soup` ("none" = None, "noart" = document without <article>,
\* "art" = document with <article>) or raised ("raise"): the set of task
\* states it may continue in. The extraction from a document with <article>
\* returns the record or raises; every exception ends in ("ERROR", url, ...).
ST_scrape_single_url(v, task, soup) ==
    IF soup = "art"
    THEN {[task EXCEPT !.pc = "extracted", !.phase = "-", !.ctx = NoCtx,
                       !.soup = "unset"],
          Done(task, "err")}
    ELSE IF soup = "raise"
    THEN {Done(task, "err")}
    ELSE IF task.attempt + 1 < MaxRetries(v)
    THEN {[task EXCEPT !.attempt = task.attempt + 1, !.phase = "wait",
                       !.ctx = NoCtx, !.soup = "unset"]}
    ELSE {Done(task, "err")}

\* BT_Scraper / Tabla_Scraper: super().scrape_single_url(url) returned a dict
\* and the second _fetch_page_content(url) is called
FollowUp(task) ==
    [task EXCEPT !.pc = "follow", !.phase = "wait", !.attempt = 0,
                 !.ctx = NoCtx, !.soup = "unset"]

\* the base scrape, per variant: ST and Async return the record, BT and Tabla
\* go on
Base(v, task, soup) ==
    {IF nt.pc = "extracted"
     THEN (IF v \in {"BT", "Tabla"} THEN FollowUp(task) ELSE Done(task, "ok"))
     ELSE nt : nt \in ST_scrape_single_url(v, task, soup)}

\* BT_Scraper.scrape_single_url after its own fetch: the record of the base
\* scrape is returned whatever the fetch gave, with the images extracted from
\* a document with <article>; nothing is inside a try, so an exception of the
\* fetch or of that extraction (urljoin on a malformed srcset URL) is raised
BT_scrape_single_url(task, soup) ==
    IF soup = "raise" THEN {Done(task, "exc")}
    ELSE IF soup = "art" THEN {Done(task, "ok"), Done(task, "exc")}
    ELSE {Done(task, "ok")}

\* mutant: like BT_Scraper, the record of the base scrape is returned when the
\* second fetch gave nothing to extract from
Tabla_scrape_single_url_keeps(task, soup) ==
    IF soup = "art" THEN {Done(task, "ok"), Done(task, "err")}
    ELSE {Done(task, "ok")}

\* Tabla_Scraper.scrape_single_url after its own fetch, inside try/except
Tabla_scrape_single_url(task, soup) ==
    IF soup = "art" THEN {Done(task, "ok"), Done(task, "err")}
    ELSE {Done(task, "err")}

scrape_single_url(v, task, soup) ==
    IF task.pc = "base" THEN Base(v, task, soup)
    ELSE IF v = "BT" THEN BT_scrape_single_url(task, soup)
    ELSE Tabla_scrape_single_url(task, soup)

\* what a _fetch_page_content call can give its caller
FetchOutcomes == {"none", "noart", "art", "raise"}

RECURSIVE Results(_, _)
\* every result scrape_single_url can end with from state `task`, over all
\* outcomes of its fetches
Results(v, task) ==
    IF task.pc = "done" THEN {task.result}
    ELSE UNION {Results(v, nt) :
                   nt \in UNION {scrape_single_url(v, task, s) : s \in FetchOutcomes}}

\* the task continues in state nt; a finished task is queued for as_completed
Continue(t, nt) ==
    /\ tasks' = [tasks EXCEPT ![t] = nt]
    /\ completed' = IF nt.pc = "done"
                    THEN Append(completed, [task |-> t, url |-> nt.url, result |-> nt.result])
                    ELSE completed

\* mutant: the slot is not given back
ReleaseNothing(t) == UNCHANGED <<semaphore, holders>>

\* mutant: acquire() and release() written out without "async with": the
\* slot is not given back when new_page raises
ReleaseUnlessRaised(t) ==
    IF tasks[t].phase = "open"
    THEN UNCHANGED <<semaphore, holders>>
    ELSE semaphore' = semaphore + 1 /\ holders' = holders \ {t}

\* leaving "async with self.semaphore"
Release(t) ==
    /\ semaphore' = semaphore + 1
    /\ holders' = holders \ {t}

\* context.new_page() returns a page, or raises (browser or context gone)
OpenPage(t) ==
    /\ Running
    /\ tasks[t].phase = "open"
    /\ \/ /\ tasks' = [tasks EXCEPT ![t].phase = "nav"]
          /\ pages' = pages \cup {<<t, tasks[t].ctx>>}
          /\ UNCHANGED <<semaphore, holders, completed>>
       \/ /\ Release(t)
          /\ \E nt \in scrape_single_url(variant, tasks[t], "raise") : Continue(t, nt)
          /\ pages' = pages
    /\ UNCHANGED <<taskFrame, context_semaphore, consumed, pending>>

\* page.goto(url, wait_until="domcontentloaded", timeout=30000)
Navigate(t) ==
    /\ Running
    /\ tasks[t].phase = "nav"
    /\ \/ tasks' = [tasks EXCEPT ![t].phase = "ready"]
       \/ tasks' = [tasks EXCEPT ![t].phase = "close", ![t].soup = "none"]
    /\ UNCHANGED <<taskFrame, pages, semaphore, context_semaphore, holders, loopVars>>

\* page.wait_for_selector("article", timeout=30000), then page.content()
WaitSelector(t) ==
    /\ Running
    /\ tasks[t].phase = "ready"
    /\ \E s \in {"none", "noart", "art"} :
          tasks' = [tasks EXCEPT ![t].phase = "close", ![t].soup = s]
    /\ UNCHANGED <<taskFrame, pages, semaphore, context_semaphore, holders, loopVars>>

\* mutant: page.close() at the end of the try body instead of in a finally
ClosePageOnSuccess(t) ==
    /\ Running
    /\ tasks[t].phase = "close"
    /\ pages' = IF tasks[t].soup = "none" THEN pages ELSE pages \ {<<t, tasks[t].ctx>>}
    /\ Release(t)
    /\ \E nt \in scrape_single_url(variant, tasks[t], tasks[t].soup) : Continue(t, nt)
    /\ UNCHANGED <<taskFrame, context_semaphore, consumed, pending>>

\* finally: page.close(); the semaphore is left and scrape_single_url goes on
ClosePage(t) ==
    /\ Running
    /\ tasks[t].phase = "close"
    /\ pages' = pages \ {<<t, tasks[t].ctx>>}
    /\ Release(t)
    /\ \E nt \in scrape_single_url(variant, tasks[t], tasks[t].soup) : Continue(t, nt)
    /\ UNCHANGED <<taskFrame, context_semaphore, consumed, pending>>

\* one step of task t of the session
TaskStep(t) ==
    \/ Acquire(t)
    \/ Jitter(t)
    \/ OpenPage(t)
    \/ Navigate(t)
    \/ WaitSelector(t)
    \/ ClosePage(t)

\* scrape_single_url of task t from call to return, as one step
Scrape(t) ==
    /\ Running
    /\ tasks[t].pc = "base"
    /\ \E r \in Results(variant, tasks[t]) : Continue(t, Done(tasks[t], r))
    /\ UNCHANGED <<taskFrame, pages, semaphore, context_semaphore, holders, consumed, pending>>

\* no scrape_single_url call is followed on its own
NoCall == [NewTask(Blank) EXCEPT !.pc = "-", !.phase = "-"]

\* what a step of the call followed on its own leaves alone
callFrame == <<cfgVars, logVars, snapVars, orch_pc, urls, sessVars, loopVars, sweepVars,
               hist, schedVars, browserVars, existVars, session>>

\* a _fetch_page_content(url) call of `call` returns s (or raises) and
\* scrape_single_url runs on to its next fetch or to its end
FetchReturns ==
    /\ call.pc \in {"base", "follow"}
    /\ \E s \in FetchOutcomes :
          \E nt \in scrape_single_url(variant, call, s) :
              /\ call' = nt
              /\ fetched' = Append(fetched, [pc |-> call.pc, url |-> call.url, soup |-> s])
    /\ UNCHANGED callFrame

\* ----------------------------------------------------------- scraper session
\* no session is followed on its own
NoSession ==
    [pc |-> "-", i |-> 0, playwright |-> FALSE, browser |-> FALSE, open |-> {},
     exc |-> FALSE]

\* scraper_class(concurrency=...): nothing is started yet
NewSession == [NoSession EXCEPT !.pc = "new"]

\* what a step of the session followed on its own leaves alone
sessionFrame == <<cfgVars, logVars, snapVars, orch_pc, urls, sessVars, loopVars, sweepVars,
                  hist, schedVars, browserVars, existVars, callVars>>

\* __aenter__: async_playwright().start(), then chromium.launch(...); either
\* can raise, and __aexit__ is not called for an __aenter__ that raised
AEnterLaunch ==
    /\ session.pc = "new"
    /\ \/ session' = [session EXCEPT !.pc = "contexts", !.playwright = TRUE, !.browser = TRUE]
       \/ session' = [session EXCEPT !.pc = "enter raised"]
       \/ session' = [session EXCEPT !.pc = "enter raised", !.playwright = TRUE]
    /\ UNCHANGED sessionFrame

\* __aenter__: one iteration of "for i in range(self.concurrency)":
\* browser.new_context(...) is appended to self.contexts, or raises
AEnterNewContext ==
    /\ session.pc = "contexts"
    /\ session.i < concurrency
    /\ \/ session' = [session EXCEPT !.open = session.open \cup {session.i},
                                      !.i = session.i + 1]
       \/ session' = [session EXCEPT !.pc = "enter raised"]
    /\ UNCHANGED sessionFrame

\* __aenter__ returns self; the body of the "async with" runs and ends,
\* normally or with an exception, and __aexit__ is called
ABody ==
    /\ session.pc = "contexts"
    /\ session.i = concurrency
    /\ \E e \in BOOLEAN : session' = [session EXCEPT !.pc = "exit", !.i = 0, !.exc = e]
    /\ UNCHANGED sessionFrame

\* __aexit__: one iteration of "for context in self.contexts": await
\* context.close() returns, or raises and the exception leaves __aexit__
AExitCloseContext ==
    /\ session.pc = "exit"
    /\ session.i < concurrency
    /\ \/ session' = [session EXCEPT !.open = session.open \ {session.i},
                                      !.i = session.i + 1]
       \/ session' = [session EXCEPT !.pc = "exit raised"]
    /\ UNCHANGED sessionFrame

\* __aexit__: "if self.browser: await self.browser.close()"
AExitCloseBrowser ==
    /\ session.pc = "exit"
    /\ session.i = concurrency
    /\ \/ session' = [session EXCEPT !.pc = "stop", !.browser = FALSE]
       \/ session' = [session EXCEPT !.pc = "exit raised"]
    /\ UNCHANGED sessionFrame

\* __aexit__: "if self.playwright: await self.playwright.stop()"
AExitStop ==
    /\ session.pc = "stop"
    /\ \/ session' = [session EXCEPT !.pc = "left", !.playwright = FALSE]
       \/ session' = [session EXCEPT !.pc = "exit raised"]
    /\ UNCHANGED sessionFrame

\* ------------------------------------------------------ batch orchestrator
NoItem == [task |-> 0, url |-> 0, result |-> "none"]

\* is_error = isinstance(item, tuple) and item and item[0] == "ERROR"
IsError(item) == item.result = "err"

\* json.dumps(item, ensure_ascii=ensure_ascii, default=str) + "\n": the lines
\* the item can give, its text holding a Unicode line boundary or not
Dump(item, ascii) ==
    IF IsError(item) THEN {DumpErr(item.url)}
    ELSE {DumpOk(item.url, sep, ascii) : sep \in BOOLEAN}

\* mutant: the comprehension without its "if ln.strip()"
NonBlankKeepsAll(ls) == ls

\* urls = [ln.strip() for ln in ... if ln.strip()]
NonBlank(ls) == Filter(ls, [i \in DOMAIN ls |-> ls[i] # Blank])

\* mutant: the filter also drops a URL already met on an earlier line
NotProcessedOnce(us, log) ==
    Filter(us, [i \in DOMAIN us |->
                   /\ us[i] \notin processed_urls(log)
                   /\ \A j \in 1..(i - 1) : us[j] # us[i]])

\* urls = [u for u in urls if u not in processed_urls]
NotProcessed(us, log) ==
    Filter(us, [i \in DOMAIN us |-> us[i] \notin processed_urls(log)])

\* no orchestrator run and no sweep is in progress on the batch
Idle == orch_pc = "idle" /\ sweep_pc = "idle"

\* the event loop is gone: unfinished coroutines no longer exist
Wiped(ts) ==
    [t \in DOMAIN ts |->
        IF ts[t].pc = "done" THEN ts[t]
        ELSE [NewTask(ts[t].url) EXCEPT !.pc = "gone", !.phase = "-"]]

\* mutant: the input can always be read
ReadFailsNever == FALSE

\* txt_path.read_text() raises; the exception is caught and logged
ReadFails == ~readable

\* process_txt_async returns r ("stem", "None") or raises ("raise"); a session
\* that was entered is left (__aexit__, every close of which succeeds: the
\* closes that fail are followed in SpecSession)
Return(r) ==
    /\ orch_pc' = "idle"
    /\ hist' = Append(hist, [op |-> "orch", ret |-> r])
    /\ contexts' = {}
    /\ pages' = {}

\* process_txt_async up to the creation of the tasks. "async with" enters the
\* scraper session, then opens out_file, then err_file, both with mode "a"
\* (which creates a missing file); when one of the three raises, the ones
\* entered before it are left and the exception leaves process_txt_async.
Start ==
    /\ Idle
    /\ Len(hist) < MaxOps
    /\ out0' = out_log
    /\ err0' = err_log
    /\ completed' = <<>>
    /\ consumed' = 0
    /\ pending' = NoItem
    /\ LET todo == NotProcessed(NonBlank(input), out_log)
       IN IF ReadFails
          THEN Return("None") /\ urls' = <<>> /\ tasks' = <<>> /\ launches' = 0
               /\ UNCHANGED existVars
          ELSE IF NonBlank(input) = <<>>
          THEN Return("stem") /\ urls' = <<>> /\ tasks' = <<>> /\ launches' = 0
               /\ UNCHANGED existVars
          ELSE IF filter_raises(out_log)
          THEN Return("raise") /\ urls' = <<>> /\ tasks' = <<>> /\ launches' = 0
               /\ UNCHANGED existVars
          ELSE IF todo = <<>>
          THEN Return("stem") /\ urls' = <<>> /\ tasks' = <<>> /\ launches' = 0
               /\ UNCHANGED existVars
          ELSE \/ \* __aenter__: the browser and `concurrency` contexts; the
                  \* two logs are open
                  /\ writable \in {"yes", "no_write"}
                  /\ orch_pc' = "loop"
                  /\ urls' = todo
                  /\ tasks' = [t \in DOMAIN todo |-> NewTask(todo[t])]
                  /\ hist' = hist
                  /\ contexts' = 0..(concurrency - 1)
                  /\ pages' = {}
                  /\ launches' = 1
                  /\ out_exists' = TRUE
                  /\ err_exists' = TRUE
               \/ \* the browser cannot be launched
                  /\ Return("raise") /\ urls' = todo /\ tasks' = <<>> /\ launches' = 0
                  /\ UNCHANGED existVars
               \/ \* out_file cannot be opened
                  /\ writable = "no_out"
                  /\ Return("raise") /\ urls' = todo /\ tasks' = <<>> /\ launches' = 1
                  /\ UNCHANGED existVars
               \/ \* err_file cannot be opened
                  /\ writable = "no_err"
                  /\ Return("raise") /\ urls' = todo /\ tasks' = <<>> /\ launches' = 1
                  /\ out_exists' = TRUE
                  /\ err_exists' = err_exists
    /\ UNCHANGED <<schedVars, callVars, session, cfgVars, logVars, semaphore, context_semaphore, holders, sweepVars>>

\* "item = await coro" gives the next finished task's result, or raises what
\* the task raised; with a result, target_f.write(...) is started
Consume ==
    /\ orch_pc = "loop"
    /\ consumed < Len(completed)
    /\ consumed' = consumed + 1
    /\ LET item == completed[consumed + 1]
       IN IF item.result = "exc"
          THEN /\ Return("raise")
               /\ tasks' = Wiped(tasks)
               /\ semaphore' = concurrency
               /\ holders' = {}
               /\ pending' = pending
          ELSE /\ orch_pc' = "write"
               /\ pending' = item
               /\ UNCHANGED <<hist, tasks, semaphore, holders, contexts, pages>>
    /\ UNCHANGED <<schedVars, callVars, session, existVars, cfgVars, logVars, snapVars, urls, context_semaphore, completed,
                   sweepVars, launches>>

\* mutant: the line is written but never flushed
FlushBuffered ==
    /\ orch_pc = "write"
    /\ pending' = NoItem
    /\ orch_pc' = "loop"
    /\ UNCHANGED <<schedVars, callVars, session, existVars, cfgVars, logVars, snapVars, urls, sessVars, completed,
                   consumed, sweepVars, hist, browserVars>>

\* mutant: the logs are opened with "w" and rewritten at every line
FlushRewriting ==
    /\ orch_pc = "write"
    /\ \E line \in Dump(pending, EnsureAscii(variant)) :
          IF IsError(pending)
          THEN err_log' = <<line>> /\ out_log' = out_log
          ELSE out_log' = <<line>> /\ err_log' = err_log
    /\ pending' = NoItem
    /\ orch_pc' = "loop"
    /\ UNCHANGED <<schedVars, callVars, session, existVars, cfgVars, snapVars, urls, sessVars, completed,
                   consumed, sweepVars, hist, browserVars>>

\* mutant: a record is written to ok_f and listed in er_f as well
FlushBoth ==
    /\ orch_pc = "write"
    /\ \E line \in Dump(pending, EnsureAscii(variant)) :
          IF IsError(pending)
          THEN err_log' = Append(err_log, line) /\ out_log' = out_log
          ELSE out_log' = Append(out_log, line)
               /\ err_log' = Append(err_log, DumpErr(pending.url))
    /\ pending' = NoItem
    /\ orch_pc' = "loop"
    /\ UNCHANGED <<schedVars, callVars, session, existVars, cfgVars, snapVars, urls, sessVars, completed,
                   consumed, sweepVars, hist, browserVars>>

\* target_f.write(...) and target_f.flush() are over: the line is in the
\* file, or the write raised and the exception leaves process_txt_async
Flush ==
    /\ orch_pc = "write"
    /\ IF writable = "no_write"
       THEN /\ Return("raise")
            /\ tasks' = Wiped(tasks)
            /\ semaphore' = concurrency
            /\ holders' = {}
            /\ UNCHANGED <<logVars, pending, context_semaphore>>
       ELSE /\ \E line \in Dump(pending, EnsureAscii(variant)) :
                  IF IsError(pending)
                  THEN err_log' = Append(err_log, line) /\ out_log' = out_log
                  ELSE out_log' = Append(out_log, line) /\ err_log' = err_log
            /\ pending' = NoItem
            /\ orch_pc' = "loop"
            /\ UNCHANGED <<sessVars, hist, contexts, pages>>
    /\ UNCHANGED <<schedVars, callVars, session, existVars, cfgVars, snapVars, urls, completed, consumed,
                   sweepVars, launches>>

\* every task's result has been written: the session and the logs are closed
Finish ==
    /\ orch_pc = "loop"
    /\ consumed = Len(urls)
    /\ Return("stem")
    /\ UNCHANGED <<schedVars, callVars, session, existVars, cfgVars, logVars, snapVars, urls, sessVars, loopVars, sweepVars,
                   launches>>

\* the process is killed: its tasks and unflushed buffers are gone, the
\* flushed lines stay (`pending` keeps what was being written)
Kill ==
    /\ Running
    /\ orch_pc' = "idle"
    /\ hist' = Append(hist, [op |-> "orch", ret |-> "killed"])
    /\ tasks' = Wiped(tasks)
    /\ semaphore' = concurrency
    /\ holders' = {}
    /\ contexts' = {}
    /\ pages' = {}
    /\ UNCHANGED <<schedVars, callVars, session, existVars, cfgVars, logVars, snapVars, urls, context_semaphore, loopVars,
                   sweepVars, launches>>

\* ------------------------------------------------------------ retry sweeper
\* RetryScraper.load_error_file: the lines that parse to a list of length > 1
load_error_file(log) ==
    LET kept == Filter(log, [i \in DOMAIN log |-> json_loads(log[i]) = "tuple"])
    IN [i \in DOMAIN kept |-> parsed(kept[i])]

\* What `for line in f` gives load_error_file before the file ends or the
\* read raises. The outer `except Exception` of load_error_file logs a failed
\* open or read (an undecodable byte, an I/O error) and the entries appended
\* so far are returned: none when the open fails or the failure is in the
\* first chunk of the file, those of the lines before it otherwise.
lines_read(log) ==
    IF err_readable THEN {log}
    ELSE {SubSeq(log, 1, k) : k \in 0..Len(log)}

\* retry_file up to the loop: the failure log is loaded; with entries, the
\* scraper session is entered
SweepStart ==
    /\ Idle
    /\ Len(hist) < MaxOps
    /\ out0' = out_log
    /\ err0' = err_log
    /\ \E got \in lines_read(err_log) :
          LET loaded == load_error_file(got)
          IN IF loaded = <<>>
             THEN /\ hist' = Append(hist, [op |-> "sweep", ret |-> "nolines"])
                  /\ UNCHANGED sweepVars
             ELSE /\ sweep_pc' = "loop"
                  /\ lines' = loaded
                  /\ entry' = 1
                  /\ remaining' = <<>>
                  /\ hist' = hist
    /\ UNCHANGED <<schedVars, callVars, session, existVars, cfgVars, logVars, orch_pc, urls, sessVars, loopVars, browserVars>>

\* RetryScraper.save_success: json.dumps(result, default=str) + "\n" is
\* appended and flushed (ensure_ascii is left at its default, True)
save_success(log, u) == Append(log, DumpOk(u, TRUE, TRUE))

\* mutant: what is kept of an entry that failed again is the failure tuple
\* of the new attempt
SweepEntryNewDetail ==
    /\ sweep_pc = "loop"
    /\ entry <= Len(lines)
    /\ \E r \in Results("Async", NewTask(lines[entry].url)) :
          IF r = "ok"
          THEN /\ out_log' = save_success(out_log, lines[entry].url)
               /\ out_exists' = TRUE
               /\ remaining' = remaining
          ELSE /\ remaining' = Append(remaining, [url |-> lines[entry].url, detail |-> "new"])
               /\ out_log' = out_log
               /\ out_exists' = out_exists
    /\ entry' = entry + 1
    /\ UNCHANGED <<schedVars, callVars, session, err_exists, cfgVars, err_log, snapVars, orch_pc, urls, sessVars, loopVars,
                   sweep_pc, lines, hist, browserVars>>

\* one iteration of the loop of retry_file: the entry's URL is scraped again
\* with AsyncScraper
SweepEntry ==
    /\ sweep_pc = "loop"
    /\ entry <= Len(lines)
    /\ \E r \in Results("Async", NewTask(lines[entry].url)) :
          IF r = "ok"
          THEN /\ out_log' = save_success(out_log, lines[entry].url)
               /\ out_exists' = TRUE
               /\ remaining' = remaining
          ELSE /\ remaining' = Append(remaining, lines[entry])
               /\ out_log' = out_log
               /\ out_exists' = out_exists
    /\ entry' = entry + 1
    /\ UNCHANGED <<schedVars, callVars, session, err_exists, cfgVars, err_log, snapVars, orch_pc, urls, sessVars, loopVars,
                   sweep_pc, lines, hist, browserVars>>

\* mutant: the failure log is opened with "a" instead of "w"
SweepAppend ==
    /\ sweep_pc = "loop"
    /\ entry > Len(lines)
    /\ err_log' = err_log \o remaining
    /\ sweep_pc' = "idle"
    /\ hist' = Append(hist, [op |-> "sweep", ret |-> "done"])
    /\ UNCHANGED <<schedVars, callVars, session, existVars, cfgVars, out_log, snapVars, orch_pc, urls, sessVars, loopVars,
                   lines, entry, remaining, browserVars>>

\* mutant: every loaded entry is written back
SweepKeepAll ==
    /\ sweep_pc = "loop"
    /\ entry > Len(lines)
    /\ err_log' = lines
    /\ sweep_pc' = "idle"
    /\ hist' = Append(hist, [op |-> "sweep", ret |-> "done"])
    /\ UNCHANGED <<schedVars, callVars, session, existVars, cfgVars, out_log, snapVars, orch_pc, urls, sessVars, loopVars,
                   lines, entry, remaining, browserVars>>

\* RetryScraper.overwrite_errors(err_file, remaining)
SweepOverwrite ==
    /\ sweep_pc = "loop"
    /\ entry > Len(lines)
    /\ err_log' = [i \in DOMAIN remaining |-> json_dumps(remaining[i])]
    /\ sweep_pc' = "idle"
    /\ hist' = Append(hist, [op |-> "sweep", ret |-> "done"])
    /\ UNCHANGED <<schedVars, callVars, session, existVars, cfgVars, out_log, snapVars, orch_pc, urls, sessVars, loopVars,
                   lines, entry, remaining, browserVars>>

\* mutant: the failure log is opened without being truncated
SweepOpenKeeping ==
    /\ sweep_pc = "loop"
    /\ entry > Len(lines)
    /\ sweep_pc' = "write"
    /\ UNCHANGED <<schedVars, callVars, session, existVars, cfgVars, logVars, snapVars, orch_pc, urls, sessVars, loopVars,
                   lines, entry, remaining, hist, browserVars>>

\* overwrite_errors, step by step: err_file.open("w") truncates the file
SweepTruncate ==
    /\ sweep_pc = "loop"
    /\ entry > Len(lines)
    /\ err_log' = <<>>
    /\ sweep_pc' = "write"
    /\ UNCHANGED <<schedVars, callVars, session, existVars, cfgVars, out_log, snapVars, orch_pc, urls, sessVars, loopVars,
                   lines, entry, remaining, hist, browserVars>>

\* overwrite_errors: the next line of remaining_lines reaches the file (the
\* buffer is written out when it fills, at f.flush() and when the file is
\* closed)
SweepWriteLine ==
    /\ sweep_pc = "write"
    /\ Len(err_log) < Len(remaining)
    /\ err_log' = Append(err_log, json_dumps(remaining[Len(err_log) + 1]))
    /\ UNCHANGED <<schedVars, callVars, session, existVars, cfgVars, out_log, snapVars, orch_pc, urls, sessVars, loopVars,
                   sweepVars, hist, browserVars>>

\* overwrite_errors and retry_file return
SweepClose ==
    /\ sweep_pc = "write"
    /\ Len(err_log) = Len(remaining)
    /\ sweep_pc' = "idle"
    /\ hist' = Append(hist, [op |-> "sweep", ret |-> "done"])
    /\ UNCHANGED <<schedVars, callVars, session, existVars, cfgVars, logVars, snapVars, orch_pc, urls, sessVars, loopVars,
                   lines, entry, remaining, browserVars>>

\* the sweeper's process is killed: what has reached the files stays
SweepKill ==
    /\ sweep_pc \in {"loop", "write"}
    /\ sweep_pc' = "idle"
    /\ hist' = Append(hist, [op |-> "sweep", ret |-> "killed in " \o sweep_pc])
    /\ UNCHANGED <<schedVars, callVars, session, existVars, cfgVars, logVars, snapVars, orch_pc, urls, sessVars, loopVars,
                   lines, entry, remaining, browserVars>>

\* ---------------------------------------------------- parallel file scheduler
Files == 1..NumFiles

\* mutant: the file is copied into SEEN_DIR and left in UNSEEN_DIR
RenameCopy(dirs, f) == [unseen |-> dirs.unseen, seen |-> dirs.seen \cup {f}]

\* txt_file.rename(seen_dir / txt_file.name): one rename(2) call
Rename(dirs, f) == [unseen |-> dirs.unseen \ {f}, seen |-> dirs.seen \cup {f}]

\* mutant: _run_one_file without its try / except
WorkerLetsThrough == FALSE

\* _run_one_file wraps its body in try / except Exception
WorkerCatches == TRUE

\* number of calls being executed by the pool's processes
Active == Cardinality({f \in Files : wpc[f] \in {"running", "rename"}})

\* max_workers of the ProcessPoolExecutor of variant v's main, n files being
\* listed: MAX_PARALLEL_TXT_FILES is 4 in straits_times and business_times
\* and len(txt_files) in tabla
max_workers(v, n) == IF v = "Tabla" THEN n ELSE MAX_PARALLEL_TXT_FILES

\* a process of the pool takes the next submitted call
WStart(f) ==
    /\ main_pc = "map"
    /\ wpc[f] = "queued"
    /\ \A g \in 1..(f - 1) : wpc[g] # "queued"
    /\ Active < max_workers(variant, Len(wpc))
    /\ wpc' = [wpc EXCEPT ![f] = "running"]
    /\ UNCHANGED <<batchVars, unseen, seen, wret, wren, status, results, main_pc>>

\* the call left by an exception: caught and turned into a status, or not
Raised(f) ==
    IF WorkerCatches
    THEN wpc' = [wpc EXCEPT ![f] = "returned"] /\ status' = [status EXCEPT ![f] = "fail"]
    ELSE wpc' = [wpc EXCEPT ![f] = "raised"] /\ status' = status

\* asyncio.run(process_txt_async(...)) ends: it returned the stem, returned
\* None (the input could not be read) or raised
WOrch(f) ==
    /\ wpc[f] = "running"
    /\ \E r \in {"stem", "None", "raise"} :
          /\ wret' = [wret EXCEPT ![f] = r]
          /\ IF r = "raise"
             THEN Raised(f)
             ELSE wpc' = [wpc EXCEPT ![f] = "rename"] /\ status' = status
    /\ UNCHANGED <<batchVars, unseen, seen, wren, results, main_pc>>

\* the worker calls asyncio.run(process_txt_async(...)) on its file
WCall(f) ==
    /\ wpc[f] = "running"
    /\ hist = <<>>
    /\ Start

\* mutant: the coroutine is started and not awaited: the worker goes on to
\* the rename while the run is in progress
WReturnEarly(f) ==
    /\ wpc[f] = "running"
    /\ Running
    /\ wret' = [wret EXCEPT ![f] = "stem"]
    /\ wpc' = [wpc EXCEPT ![f] = "rename"]
    /\ status' = status
    /\ UNCHANGED <<batchVars, unseen, seen, wren, results, main_pc>>

\* asyncio.run(process_txt_async(...)) ends as the run of the batch ended:
\* the value it returned is dropped, an exception is passed on
WReturn(f) ==
    /\ wpc[f] = "running"
    /\ Idle
    /\ hist # <<>>
    /\ LET r == Last(hist).ret
       IN /\ wret' = [wret EXCEPT ![f] = r]
          /\ IF r = "raise"
             THEN Raised(f)
             ELSE wpc' = [wpc EXCEPT ![f] = "rename"] /\ status' = status
    /\ UNCHANGED <<batchVars, unseen, seen, wren, results, main_pc>>

\* txt_file.rename(...) and the return of the status
WRename(f) ==
    /\ wpc[f] = "rename"
    /\ \/ /\ LET d == Rename([unseen |-> unseen, seen |-> seen], f)
             IN unseen' = d.unseen /\ seen' = d.seen
          /\ wren' = [wren EXCEPT ![f] = "ok"]
          /\ wpc' = [wpc EXCEPT ![f] = "returned"]
          /\ status' = [status EXCEPT ![f] = "ok"]
       \/ /\ wren' = [wren EXCEPT ![f] = "raise"]
          /\ Raised(f)
          /\ UNCHANGED <<unseen, seen>>
    /\ UNCHANGED <<batchVars, wret, results, main_pc>>

\* "for result in pool.map(worker, txt_files)": the next result, in the order
\* of submission; an exception of the call is raised again here
Collect ==
    /\ main_pc = "map"
    /\ Len(results) < NumFiles
    /\ LET f == Len(results) + 1
       IN /\ wpc[f] \in {"returned", "raised"}
          /\ IF wpc[f] = "returned"
             THEN results' = Append(results, status[f]) /\ main_pc' = main_pc
             ELSE results' = results /\ main_pc' = "aborted"
    /\ UNCHANGED <<batchVars, unseen, seen, wpc, wret, wren, status>>

\* every result has been logged: "All files processed!"
MainDone ==
    /\ main_pc = "map"
    /\ Len(results) = NumFiles
    /\ main_pc' = "done"
    /\ UNCHANGED <<batchVars, unseen, seen, wpc, wret, wren, status, results>>

\* ------------------------------------------------------------ dedup script
\* A line of a .jsonl file of the directory, by what the loop body of
\* remove_duplicates_jsonl_by_url makes of it; `text` tells the lines of one
\* article_url apart (their other fields), `pad` is whitespace around the
\* JSON text.
\*   "record"     an object with a non-empty string "article_url"
\*   "blank"      nothing but whitespace
\*   "invalid"    not JSON: json.JSONDecodeError
\*   "value"      JSON that is not an object: an array (a line of a failure
\*                log), a number, a string, true, false, null
\*   "nourl"      an object without "article_url"
\*   "emptyurl"   an object whose "article_url" is "", null, 0, [] or {}
\*   "unhashable" an object whose "article_url" is a non-empty array or object
Texts == 1..2
JRecord(u, x, pad) == [json |-> "record", url |-> u, text |-> x, pad |-> pad]
OtherKinds == {"blank", "invalid", "value", "nourl", "emptyurl", "unhashable"}
JOther(k) == [json |-> k, url |-> Blank, text |-> 0, pad |-> FALSE]
JsonlLines ==
    {JRecord(u, x, pad) : u \in Urls, x \in Texts, pad \in BOOLEAN}
        \cup {JOther(k) : k \in OtherKinds}

\* line.strip()
strip(line) == [line EXCEPT !.pad = FALSE]

\* `for line in f`, from line i on, with the seen_urls and unique_lines
\* gathered so far: unique_lines at the end of the file, or `raised` when an
\* exception other than json.JSONDecodeError left the loop
RECURSIVE read_lines(_, _, _, _)
read_lines(f, i, seen_urls, unique_lines) ==
    IF i > Len(f) THEN [raised |-> FALSE, unique_lines |-> unique_lines]
    ELSE LET line == strip(f[i])
         IN \* `if not line: continue`, `except json.JSONDecodeError`
            IF line.json \in {"blank", "invalid"}
            THEN read_lines(f, i + 1, seen_urls, unique_lines)
            \* obj.get: AttributeError
            ELSE IF line.json = "value"
            THEN [raised |-> TRUE, unique_lines |-> unique_lines]
            \* `if url` is false
            ELSE IF line.json \in {"nourl", "emptyurl"}
            THEN read_lines(f, i + 1, seen_urls, unique_lines)
            \* `url not in seen_urls`: TypeError
            ELSE IF line.json = "unhashable"
            THEN [raised |-> TRUE, unique_lines |-> unique_lines]
            ELSE IF line.url \in seen_urls
            THEN read_lines(f, i + 1, seen_urls, unique_lines)
            ELSE read_lines(f, i + 1, seen_urls \cup {line.url},
                            Append(unique_lines, line))

\* A file name of the directory: x.jsonl, x_deduped.jsonl,
\* x_deduped_deduped.jsonl, ... and x.txt
Jsonl(n) == [deduped |-> n, ext |-> "jsonl"]
Txt == [deduped |-> 0, ext |-> "txt"]

\* filename.endswith('.jsonl')
endswith_jsonl(filename) == filename.ext = "jsonl"

\* filename.replace('.jsonl', '_deduped.jsonl')
new_filename(filename) == [filename EXCEPT !.deduped = @ + 1]

\* open(path, 'w') and the writes: the file is created or replaced
write_file(dir, name, content) ==
    [n \in DOMAIN dir \cup {name} |-> IF n = name THEN content ELSE dir[n]]

\* the orders in which os.listdir can give the names
Listings(names) ==
    {s \in SeqsUpTo(names, Cardinality(names)) :
        /\ Len(s) = Cardinality(names)
        /\ \A i, j \in DOMAIN s : i # j => s[i] # s[j]}

scrapeVars == <<variant, concurrency, input, readable, writable, err_readable,
                logVars, snapVars, orch_pc, urls, sessVars, loopVars,
                sweepVars, hist, schedVars, browserVars, callVars, existVars,
                session>>

\* the script is not running
NoDedup ==
    /\ directory = <<>>
    /\ dir0 = <<>>
    /\ filenames = <<>>
    /\ dedup_pc = "idle"

\* remove_duplicates_jsonl_by_url(directory) is called: os.listdir. A call
\* can follow one that has ended, as long as the names stay within MaxOps
\* suffixes.
DedupListdir ==
    /\ dedup_pc \in {"idle", "done", "raise"}
    /\ \A name \in DOMAIN directory : name.deduped < MaxOps
    /\ \E listing \in Listings(DOMAIN directory) : filenames' = listing
    /\ dir0' = directory
    /\ dedup_pc' = "loop"
    /\ UNCHANGED <<directory, scrapeVars>>

\* one turn of `for filename in os.listdir(directory)`: the file is read
\* and its unique lines are written, each followed by "\n", to the new name
DedupFile ==
    /\ dedup_pc = "loop"
    /\ filenames # <<>>
    /\ LET filename == Head(filenames)
           got == read_lines(directory[filename], 1, {}, <<>>)
       IN IF ~endswith_jsonl(filename)
          THEN /\ filenames' = Tail(filenames)
               /\ UNCHANGED <<directory, dedup_pc>>
          ELSE IF got.raised
          THEN /\ dedup_pc' = "raise"
               /\ UNCHANGED <<directory, filenames>>
          ELSE /\ directory' = write_file(directory, new_filename(filename),
                                          got.unique_lines)
               /\ filenames' = Tail(filenames)
               /\ UNCHANGED dedup_pc
    /\ UNCHANGED <<dir0, scrapeVars>>

\* the loop over the names has ended
DedupReturn ==
    /\ dedup_pc = "loop"
    /\ filenames = <<>>
    /\ dedup_pc' = "done"
    /\ UNCHANGED <<directory, dir0, filenames, scrapeVars>>

\* ----------------------------------------------------------- specifications
\* One scraper session: the tasks of a run have just been created.
Init ==
    /\ variant \in Scrapers
    /\ concurrency \in 1..MaxConc
    /\ \E n \in 1..NumLines : input = [i \in 1..n |-> i]
    /\ readable = TRUE
    /\ out_log = <<>>
    /\ err_log = <<>>
    /\ out0 = <<>>
    /\ err0 = <<>>
    /\ orch_pc = "loop"
    /\ urls = input
    /\ tasks = [t \in DOMAIN input |-> NewTask(input[t])]
    /\ semaphore = concurrency
    /\ context_semaphore = concurrency
    /\ holders = {}
    /\ completed = <<>>
    /\ consumed = 0
    /\ pending = NoItem
    /\ sweep_pc = "idle"
    /\ lines = <<>>
    /\ entry = 1
    /\ remaining = <<>>
    /\ hist = <<>>
    /\ unseen = {}
    /\ seen = {}
    /\ wpc = <<>>
    /\ wret = <<>>
    /\ wren = <<>>
    /\ status = <<>>
    /\ results = <<>>
    /\ main_pc = "-"
    /\ contexts = 0..(concurrency - 1)
    /\ pages = {}
    /\ launches = 1
    /\ call = NoCall
    /\ fetched = <<>>
    /\ writable = "yes"
    /\ err_readable = TRUE
    /\ NoDedup
    /\ out_exists = TRUE
    /\ err_exists = TRUE
    /\ session = NoSession

Next ==
    \/ \E t \in TaskIds : TaskStep(t)
    \/ Consume
    \/ Flush
    \/ Finish
    \/ Kill

Spec == Init /\ [][Next]_vars

\* One session that is not killed, with the scheduling asyncio gives it: a
\* coroutine that can go on does go on (the event loop runs every ready
\* callback; goto and wait_for_selector end by their 30 s timeout at the
\* latest), and a task waiting on self.semaphore gets a slot that keeps
\* being released (asyncio.Semaphore wakes its waiters in FIFO order).
NextLive ==
    \/ \E t \in TaskIds : TaskStep(t)
    \/ Consume
    \/ Flush
    \/ Finish

Fairness ==
    /\ \A t \in 1..NumLines :
          /\ SF_vars(t \in TaskIds /\ Acquire(t))
          /\ WF_vars(t \in TaskIds /\ TaskStep(t))
    /\ WF_vars(Consume)
    /\ WF_vars(Flush)
    /\ WF_vars(Finish)

SpecLive == Init /\ [][NextLive]_vars /\ Fairness

\* URLs are opaque keys: an input is taken up to renaming of its URLs, the
\* k-th distinct URL of the file being k
Canonical(ls) ==
    \A i \in DOMAIN ls :
        ls[i] # Blank => \A u \in 1..(ls[i] - 1) : \E j \in 1..(i - 1) : ls[j] = u

\* A batch: an input file and its two logs, before any run.
InitBatch ==
    /\ variant \in Variants
    /\ concurrency = MaxConc
    /\ input \in {ls \in SeqsUpTo(Urls \cup {Blank}, NumLines) : Canonical(ls)}
    /\ readable \in BOOLEAN
    /\ out_log = <<>>
    /\ err_log = <<>>
    /\ out0 = <<>>
    /\ err0 = <<>>
    /\ orch_pc = "idle"
    /\ urls = <<>>
    /\ tasks = <<>>
    /\ semaphore = concurrency
    /\ context_semaphore = concurrency
    /\ holders = {}
    /\ completed = <<>>
    /\ consumed = 0
    /\ pending = NoItem
    /\ sweep_pc = "idle"
    /\ lines = <<>>
    /\ entry = 1
    /\ remaining = <<>>
    /\ hist = <<>>
    /\ unseen = {}
    /\ seen = {}
    /\ wpc = <<>>
    /\ wret = <<>>
    /\ wren = <<>>
    /\ status = <<>>
    /\ results = <<>>
    /\ main_pc = "-"
    /\ contexts = {}
    /\ pages = {}
    /\ launches = 0
    /\ call = NoCall
    /\ fetched = <<>>
    /\ writable = "yes"
    /\ err_readable = TRUE
    /\ NoDedup
    /\ out_exists = FALSE
    /\ err_exists = FALSE
    /\ session = NoSession

NextBatch ==
    \/ Start
    \/ \E t \in TaskIds : Scrape(t)
    \/ Consume
    \/ Flush
    \/ Finish
    \/ SweepStart
    \/ SweepEntry
    \/ SweepOverwrite

SpecBatch == InitBatch /\ [][NextBatch]_vars

\* A batch under repeated runs of the orchestrator alone, no sweep between
\* them.
NextRuns ==
    \/ Start
    \/ \E t \in TaskIds : Scrape(t)
    \/ Consume
    \/ Flush
    \/ Finish

SpecRuns == InitBatch /\ [][NextRuns]_vars

\* main has listed UNSEEN_DIR and submitted one call per file to the pool.
InitFiles ==
    /\ variant = "ST"
    /\ concurrency = MaxConc
    /\ input = <<>>
    /\ readable = TRUE
    /\ out_log = <<>>
    /\ err_log = <<>>
    /\ out0 = <<>>
    /\ err0 = <<>>
    /\ orch_pc = "idle"
    /\ urls = <<>>
    /\ tasks = <<>>
    /\ semaphore = concurrency
    /\ context_semaphore = concurrency
    /\ holders = {}
    /\ completed = <<>>
    /\ consumed = 0
    /\ pending = NoItem
    /\ sweep_pc = "idle"
    /\ lines = <<>>
    /\ entry = 1
    /\ remaining = <<>>
    /\ hist = <<>>
    /\ unseen = Files
    /\ seen = {}
    /\ wpc = [f \in Files |-> "queued"]
    /\ wret = [f \in Files |-> "-"]
    /\ wren = [f \in Files |-> "-"]
    /\ status = [f \in Files |-> "-"]
    /\ results = <<>>
    /\ main_pc = "map"
    /\ contexts = {}
    /\ pages = {}
    /\ launches = 0
    /\ call = NoCall
    /\ fetched = <<>>
    /\ writable = "yes"
    /\ err_readable = TRUE
    /\ NoDedup
    /\ out_exists = FALSE
    /\ err_exists = FALSE
    /\ session = NoSession

NextFiles ==
    \/ \E f \in Files : WStart(f)
    \/ \E f \in Files : WOrch(f)
    \/ \E f \in Files : WRename(f)
    \/ Collect
    \/ MainDone

SpecFiles == InitFiles /\ [][NextFiles]_vars

\* scrape_single_url(u) has just been called on a scraper of any class.
InitCall ==
    /\ variant \in Scrapers
    /\ concurrency = MaxConc
    /\ input = <<>>
    /\ readable = TRUE
    /\ out_log = <<>>
    /\ err_log = <<>>
    /\ out0 = <<>>
    /\ err0 = <<>>
    /\ orch_pc = "idle"
    /\ urls = <<>>
    /\ tasks = <<>>
    /\ semaphore = concurrency
    /\ context_semaphore = concurrency
    /\ holders = {}
    /\ completed = <<>>
    /\ consumed = 0
    /\ pending = NoItem
    /\ sweep_pc = "idle"
    /\ lines = <<>>
    /\ entry = 1
    /\ remaining = <<>>
    /\ hist = <<>>
    /\ unseen = {}
    /\ seen = {}
    /\ wpc = <<>>
    /\ wret = <<>>
    /\ wren = <<>>
    /\ status = <<>>
    /\ results = <<>>
    /\ main_pc = "-"
    /\ contexts = {}
    /\ pages = {}
    /\ launches = 0
    /\ \E u \in Urls : call = NewTask(u)
    /\ fetched = <<>>
    /\ writable = "yes"
    /\ err_readable = TRUE
    /\ NoDedup
    /\ out_exists = FALSE
    /\ err_exists = FALSE
    /\ session = NoSession

NextCall == FetchReturns

SpecCall == InitCall /\ [][NextCall]_vars

\* no orchestrator run has started on the batch
IdleBatch ==
    /\ orch_pc = "idle"
    /\ urls = <<>>
    /\ tasks = <<>>
    /\ semaphore = concurrency
    /\ context_semaphore = concurrency
    /\ holders = {}
    /\ completed = <<>>
    /\ consumed = 0
    /\ pending = NoItem
    /\ contexts = {}
    /\ pages = {}
    /\ launches = 0

\* no sweep has started on the batch
NoSweep ==
    /\ sweep_pc = "idle"
    /\ lines = <<>>
    /\ entry = 1
    /\ remaining = <<>>

\* main is not running
NoScheduler ==
    /\ unseen = {}
    /\ seen = {}
    /\ wpc = <<>>
    /\ wret = <<>>
    /\ wren = <<>>
    /\ status = <<>>
    /\ results = <<>>
    /\ main_pc = "-"

\* the lines a log can hold: records and failure tuples as the program
\* writes them, and malformed lines
LogLines ==
    {DumpOk(u, TRUE, a) : u \in Urls, a \in BOOLEAN}
        \cup {DumpErr(u) : u \in Urls}
        \cup {DumpErrRaw(u) : u \in Urls}
        \cup {Malformed(k, u) : k \in MalformedKinds, u \in Urls}

\* A batch whose success log or failure log holds any lines, before the
\* orchestrator or the sweeper reads it.
InitLoad ==
    /\ variant \in Variants
    /\ concurrency = MaxConc
    /\ \E n \in 1..NumLines : input = [i \in 1..n |-> i]
    /\ readable = TRUE
    /\ \E log \in SeqsUpTo(LogLines, NumLines) :
          \/ out_log = log /\ err_log = <<>>
          \/ out_log = <<>> /\ err_log = log
    /\ out0 = <<>>
    /\ err0 = <<>>
    /\ IdleBatch
    /\ NoSweep
    /\ hist = <<>>
    /\ NoScheduler
    /\ call = NoCall
    /\ fetched = <<>>
    /\ writable = "yes"
    /\ err_readable = TRUE
    /\ NoDedup
    /\ out_exists = TRUE
    /\ err_exists = TRUE
    /\ session = NoSession

\* the orchestrator up to the creation of its tasks, the sweeper up to its loop
NextLoad ==
    \/ Start
    \/ SweepStart

SpecLoad == InitLoad /\ [][NextLoad]_vars

\* A failure log before a sweep; the success log is that of the runs before.
InitSweep ==
    /\ variant = "ST"
    /\ concurrency = MaxConc
    /\ input = <<>>
    /\ readable = TRUE
    /\ out_log = <<>>
    /\ err_log \in SeqsUpTo(LogLines, NumLines)
    /\ out0 = <<>>
    /\ err0 = <<>>
    /\ IdleBatch
    /\ NoSweep
    /\ hist = <<>>
    /\ NoScheduler
    /\ call = NoCall
    /\ fetched = <<>>
    /\ writable = "yes"
    /\ err_readable = TRUE
    /\ NoDedup
    /\ out_exists = TRUE
    /\ err_exists = TRUE
    /\ session = NoSession

\* retry_file at the granularity of its file operations, with a kill
NextSweep ==
    \/ SweepStart
    \/ SweepEntry
    \/ SweepTruncate
    \/ SweepWriteLine
    \/ SweepClose
    \/ SweepKill

SpecSweep == InitSweep /\ [][NextSweep]_vars

\* A failure log of any content that may fail to be read, before a sweep.
InitRetry ==
    /\ variant = "ST"
    /\ concurrency = MaxConc
    /\ input = <<>>
    /\ readable = TRUE
    /\ out_log = <<>>
    /\ err_log \in SeqsUpTo(LogLines, NumLines)
    /\ out0 = <<>>
    /\ err0 = <<>>
    /\ IdleBatch
    /\ NoSweep
    /\ hist = <<>>
    /\ NoScheduler
    /\ call = NoCall
    /\ fetched = <<>>
    /\ writable = "yes"
    /\ err_readable \in BOOLEAN
    /\ NoDedup
    /\ out_exists = TRUE
    /\ err_exists = TRUE
    /\ session = NoSession

\* retry_file, its overwrite taken as one step
NextRetry ==
    \/ SweepStart
    \/ SweepEntry
    \/ SweepOverwrite

SpecRetry == InitRetry /\ [][NextRetry]_vars

\* the success log of an earlier run in which every URL of the input succeeded
AllDone(ls) == [i \in DOMAIN NonBlank(ls) |-> DumpOk(NonBlank(ls)[i], FALSE, TRUE)]

\* A pool process has taken the _run_one_file call of one file, whose logs
\* do not exist yet or are those of an earlier complete run; the logs can be
\* written, or opening or writing them fails.
InitWorker ==
    /\ variant \in Variants
    /\ concurrency = MaxConc
    /\ input \in {ls \in SeqsUpTo(Urls \cup {Blank}, NumLines) : Canonical(ls)}
    /\ readable \in BOOLEAN
    /\ writable \in {"yes", "no_out", "no_err", "no_write"}
    /\ err_readable = TRUE
    /\ NoDedup
    /\ \/ out_log = <<>> /\ out_exists = FALSE /\ err_exists = FALSE
       \/ /\ NonBlank(input) # <<>>
          /\ out_log = AllDone(input) /\ out_exists = TRUE /\ err_exists = TRUE
    /\ err_log = <<>>
    /\ out0 = <<>>
    /\ err0 = <<>>
    /\ IdleBatch
    /\ NoSweep
    /\ hist = <<>>
    /\ unseen = {1}
    /\ seen = {}
    /\ wpc = <<"running">>
    /\ wret = <<"-">>
    /\ wren = <<"-">>
    /\ status = <<"-">>
    /\ results = <<>>
    /\ main_pc = "map"
    /\ call = NoCall
    /\ fetched = <<>>
    /\ session = NoSession

\* _run_one_file on one file: the run of the batch, then the rename
NextWorker ==
    \/ WCall(1)
    \/ \E t \in TaskIds : Scrape(t)
    \/ Consume
    \/ Flush
    \/ Finish
    \/ WReturn(1)
    \/ WRename(1)

SpecWorker == InitWorker /\ [][NextWorker]_vars

\* main of any variant has listed UNSEEN_DIR and submitted one call per file.
InitPool ==
    /\ variant \in Variants
    /\ concurrency = MaxConc
    /\ input = <<>>
    /\ readable = TRUE
    /\ out_log = <<>>
    /\ err_log = <<>>
    /\ out0 = <<>>
    /\ err0 = <<>>
    /\ IdleBatch
    /\ NoSweep
    /\ hist = <<>>
    /\ unseen = Files
    /\ seen = {}
    /\ wpc = [f \in Files |-> "queued"]
    /\ wret = [f \in Files |-> "-"]
    /\ wren = [f \in Files |-> "-"]
    /\ status = [f \in Files |-> "-"]
    /\ results = <<>>
    /\ main_pc = "map"
    /\ call = NoCall
    /\ fetched = <<>>
    /\ writable = "yes"
    /\ err_readable = TRUE
    /\ NoDedup
    /\ out_exists = FALSE
    /\ err_exists = FALSE
    /\ session = NoSession

\* the processes of the pool
NextPool ==
    \/ \E f \in Files : WStart(f)
    \/ \E f \in Files : WOrch(f)
    \/ \E f \in Files : WRename(f)

SpecPool == InitPool /\ [][NextPool]_vars

\* A scraper of any class has been constructed for an "async with".
InitSession ==
    /\ variant \in Scrapers
    /\ concurrency \in 1..MaxConc
    /\ input = <<>>
    /\ readable = TRUE
    /\ out_log = <<>>
    /\ err_log = <<>>
    /\ out0 = <<>>
    /\ err0 = <<>>
    /\ IdleBatch
    /\ NoSweep
    /\ hist = <<>>
    /\ NoScheduler
    /\ call = NoCall
    /\ fetched = <<>>
    /\ writable = "yes"
    /\ err_readable = TRUE
    /\ NoDedup
    /\ out_exists = FALSE
    /\ err_exists = FALSE
    /\ session = NewSession

\* __aenter__, the body, __aexit__
NextSession ==
    \/ AEnterLaunch
    \/ AEnterNewContext
    \/ ABody
    \/ AExitCloseContext
    \/ AExitCloseBrowser
    \/ AExitStop

SpecSession == InitSession /\ [][NextSession]_vars

\* x_deduped.jsonl as an earlier call wrote it when x.jsonl, which is only
\* appended to, held the first k of its lines
EarlierOutput(f, k) == read_lines(SubSeq(f, 1, k), 1, {}, <<>>)

\* the directory holding x.jsonl with the lines f, the output of an earlier
\* call on its first k lines (none for k < 0) and possibly x.txt
Directory(f, k, txt) ==
    (Jsonl(0) :> f)
        @@ (IF k >= 0 THEN Jsonl(1) :> EarlierOutput(f, k).unique_lines ELSE <<>>)
        @@ (IF txt THEN Txt :> <<>> ELSE <<>>)

\* A directory holding x.jsonl with any lines, possibly x.txt, and possibly
\* the x_deduped.jsonl of an earlier call that returned.
InitDedup ==
    /\ variant = "ST"
    /\ concurrency = MaxConc
    /\ input = <<>>
    /\ readable = TRUE
    /\ out_log = <<>>
    /\ err_log = <<>>
    /\ out0 = <<>>
    /\ err0 = <<>>
    /\ IdleBatch
    /\ NoSweep
    /\ hist = <<>>
    /\ NoScheduler
    /\ call = NoCall
    /\ fetched = <<>>
    /\ writable = "yes"
    /\ err_readable = TRUE
    /\ out_exists = TRUE
    /\ err_exists = TRUE
    /\ session = NoSession
    /\ \E f \in SeqsUpTo(JsonlLines, NumLines), k \in -1..NumLines, txt \in BOOLEAN :
          /\ k <= Len(f)
          /\ k >= 0 => ~EarlierOutput(f, k).raised
          /\ directory = Directory(f, k, txt)
    /\ dir0 = <<>>
    /\ filenames = <<>>
    /\ dedup_pc = "idle"

NextDedup ==
    \/ DedupListdir
    \/ DedupFile
    \/ DedupReturn

SpecDedup == InitDedup /\ [][NextDedup]_vars

\* ------------------------------------------------------------------ claims
InputUrls == {input[i] : i \in DOMAIN input} \ {Blank}

\* the last operation on the batch was an orchestrator run that ended with r
OrchEnded(r) == Idle /\ hist # <<>> /\ Last(hist) = [op |-> "orch", ret |-> r]

\* an orchestrator run is in progress or was the last operation to end
InOrAfterOrch ==
    /\ sweep_pc = "idle"
    /\ orch_pc # "idle" \/ (hist # <<>> /\ Last(hist).op = "orch")

UrlsOf(log) == [i \in DOMAIN log |-> log[i].url]

\* the lines a log has gained since the operation started
Gained(log, log0) == SubSeq(log, Len(log0) + 1, Len(log))

\* C1: at most `concurrency` fetches are past the acquisition of the fetch
\* semaphore (jitter sleep, page open, navigation, readiness wait), and a task
\* that opens a page or navigates holds a slot; for ST, BT and Tabla alike.
C1_BoundedConcurrency ==
    /\ Cardinality({t \in TaskIds : InFetch(t)}) <= concurrency
    /\ \A t \in TaskIds : (tasks[t].phase = "open" \/ PageOpen(t)) => t \in holders
    /\ Cardinality(holders) <= concurrency

\* C1 witness: all slots are taken, one of them by the second fetch of a BT
\* task that is navigating, while another task waits for a slot
C1_Witness ==
    /\ variant = "BT"
    /\ Cardinality({t \in TaskIds : InFetch(t)}) = concurrency
    /\ \E t, w \in TaskIds :
          /\ tasks[t].pc = "follow" /\ Navigating(t)
          /\ tasks[w].pc = "base" /\ tasks[w].phase = "wait"

\* C2 (as claimed): no context has open pages of two in-flight fetches.
C2_ContextExclusive ==
    \A t1, t2 \in TaskIds :
        (t1 # t2 /\ PageOpen(t1) /\ PageOpen(t2)) => tasks[t1].ctx # tasks[t2].ctx

\* C3 (as claimed): a run started on a success log that holds a record for URL
\* u creates no task for u and appends no further success record for u.
C3_IdempotentResume ==
    InOrAfterOrch =>
        /\ \A t \in TaskIds : tasks[t].url \notin LoggedUrls(out0)
        /\ \A i \in (Len(out0) + 1)..Len(out_log) : out_log[i].url \notin LoggedUrls(out0)

\* the first operation was an orchestrator run that completed, every later
\* one was a sweep, and the last sweep left the failure log as it found it
SweptToFixpoint ==
    /\ Idle
    /\ Len(hist) >= 2
    /\ hist[1] = [op |-> "orch", ret |-> "stem"]
    /\ \A i \in 2..Len(hist) : hist[i].op = "sweep"
    /\ err_log = err0

ExactlyOneLog ==
    \A u \in InputUrls : (u \in LoggedUrls(out_log)) # (u \in LoggedUrls(err_log))

Distinct(ls) ==
    \A i, j \in DOMAIN ls : (i # j /\ ls[i] # Blank) => ls[i] # ls[j]

C5_LogsExclusive ==
    (Idle /\ Distinct(input)) => LoggedUrls(out_log) \cap LoggedUrls(err_log) = {}

\* C6: a worker whose orchestrator run returned the stem and whose rename did
\* not raise leaves the file in SEEN_DIR and not in UNSEEN_DIR; at every
\* moment a file is in exactly one of the two directories.
C6_CompletionMarker ==
    \A f \in Files :
        /\ (f \in unseen) # (f \in seen)
        /\ (wpc[f] = "returned" /\ wret[f] = "stem" /\ wren[f] # "raise")
              => (f \in seen /\ f \notin unseen /\ status[f] = "ok")

\* C6 witness: a file has been moved by a worker whose run returned the stem
C6_Witness ==
    \E f \in Files : wpc[f] = "returned" /\ wret[f] = "stem" /\ wren[f] = "ok" /\ f \in seen

\* C7 (as claimed): a file whose run returned None stays in UNSEEN_DIR.
C7_IncompleteStaysPending ==
    \A f \in Files :
        (wpc[f] = "returned" /\ wret[f] = "None") => (f \in unseen /\ f \notin seen)

\* C8: a file whose run or rename raised stays in UNSEEN_DIR with a failure
\* status, main is never stopped by it, and main ends only with one status
\* per file, every worker having returned.
C8_WorkerIsolation ==
    /\ \A f \in Files :
          (wret[f] = "raise" \/ wren[f] = "raise")
              => (f \in unseen /\ f \notin seen /\ wpc[f] = "returned" /\ status[f] = "fail")
    /\ main_pc # "aborted"
    /\ main_pc = "done" \/ ENABLED NextFiles
    /\ main_pc = "done" =>
          (Len(results) = NumFiles /\ \A f \in Files : wpc[f] = "returned" /\ results[f] = status[f])

\* C8 witness: main is done, a worker failed and a sibling submitted after it
\* completed its file
C8_Witness ==
    /\ main_pc = "done"
    /\ \E f, g \in Files : f < g /\ wret[f] = "raise" /\ status[g] = "ok" /\ g \in seen

\* records of URL u among the lines gained by both logs during the run
GainedCount(u) ==
    CountUrl(Gained(out_log, out0), u) + CountUrl(Gained(err_log, err0), u)

\* C9 (as claimed, on an input of pairwise distinct URLs): a completed run
\* has appended exactly one record for every scheduled URL, and when a run
\* ends every task that returned a record has had it written, whatever
\* happened to the other tasks.
C9_OneRecordPerUrl ==
    Distinct(input) =>
        /\ OrchEnded("stem") => \A t \in TaskIds : GainedCount(tasks[t].url) = 1
        /\ (OrchEnded("stem") \/ OrchEnded("raise")) =>
              \A i \in DOMAIN completed :
                  completed[i].result \in {"ok", "err"} => i <= consumed

\* the URLs of the first k consumed results that are (are not) failures
RECURSIVE TakenUrls(_, _)
TakenUrls(k, err) ==
    IF k = 0 THEN <<>>
    ELSE IF completed[k].result = (IF err THEN "err" ELSE "ok")
    THEN Append(TakenUrls(k - 1, err), completed[k].url)
    ELSE TakenUrls(k - 1, err)

\* the logs hold, in completion order, exactly the records of the first k
\* consumed results
Durable(k) ==
    /\ UrlsOf(out_log) = UrlsOf(out0) \o TakenUrls(k, FALSE)
    /\ UrlsOf(err_log) = UrlsOf(err0) \o TakenUrls(k, TRUE)

Killed == Idle /\ hist # <<>> /\ Last(hist).ret = "killed"

\* C10 (as claimed): a kill leaves a record for every result consumed before.
C10_DurableAll == Killed => Durable(consumed)

\* C10 (amended): at every moment, hence at a kill, the logs hold in
\* completion order the records of all consumed results but the one being
\* written; the next result is consumed only after that one is flushed.
C10_DurableButPending ==
    /\ pending # NoItem => (consumed >= 1 /\ pending = completed[consumed])
    /\ orch_pc = "write" <=> (Running /\ pending # NoItem)
    /\ Durable(IF pending = NoItem THEN consumed ELSE consumed - 1)

\* C10 witness: the run is killed while the second consumed result is being
\* written, the record of the first being in a log
C10_Witness ==
    /\ Killed
    /\ consumed = 2
    /\ pending # NoItem
    /\ Len(out_log) + Len(err_log) = 1

\* the fetches of the retry loop of the base scrape_single_url, in order
IsBaseFetch(f) == f.pc = "base"
BaseFetches == SelectSeq(fetched, IsBaseFetch)

\* the call followed on its own has returned or raised
CallEnded == call.pc = "done"

\* C11: the retry loop makes at most max_retries fetches (3, AsyncScraper 2),
\* each after the first follows one that gave no document or a document
\* without <article>, and none follows one that gave a document with <article>.
C11_BoundedRetry ==
    LET b == BaseFetches
    IN /\ Len(b) <= (IF variant = "Async" THEN 2 ELSE 3)
       /\ \A k \in 2..Len(b) : b[k - 1].soup \in {"none", "noart"}
       /\ \A k \in DOMAIN b : b[k].soup = "art" => k = Len(b)

\* C11 witness: an ST call stopped at its third fetch, the first to give a
\* document with <article>
C11_Witness ==
    /\ variant = "ST"
    /\ CallEnded
    /\ [k \in DOMAIN BaseFetches |-> BaseFetches[k].soup] = <<"noart", "none", "art">>

\* C13: a call all of whose fetches returned no document has made max_retries
\* of them and returned (not raised) a failure record for the URL it was given.
C13_ExhaustedGivesFailure ==
    (CallEnded /\ fetched # <<>> /\ \A k \in DOMAIN fetched : fetched[k].soup = "none")
        => /\ call.result = "err"
           /\ call.url = fetched[1].url
           /\ Len(fetched) = (IF variant = "Async" THEN 2 ELSE 3)

\* C13 witness: three fetches of a BT call returned no document and the call
\* has ended
C13_Witness ==
    /\ variant = "BT"
    /\ CallEnded
    /\ Len(fetched) = 3
    /\ \A k \in DOMAIN fetched : fetched[k].soup = "none"

\* C14 (as claimed): once a fetch of the retry loop has given a document
\* without <article>, the call has ended with a failure record and that
\* fetch was its last.
C14_MissingContainerNotRetried ==
    \A k \in DOMAIN BaseFetches :
        BaseFetches[k].soup = "noart"
            => (CallEnded /\ call.result = "err" /\ k = Len(fetched))

\* C14 (amended): a document without <article> counts as a failed attempt: it
\* is followed by another fetch while attempts remain and by a failure record
\* after the last attempt; a fetch that gave a document with <article> is
\* never followed by another fetch of the loop, whether the extraction from
\* it succeeds or fails.
C14_MissingContainerRetried ==
    LET b == BaseFetches
        last == IF variant = "Async" THEN 2 ELSE 3
    IN \A k \in DOMAIN b :
          /\ (b[k].soup = "noart" /\ k < last)
                => (Len(b) > k \/ (call.pc = "base" /\ call.attempt = k))
          /\ (b[k].soup = "noart" /\ k = last)
                => (CallEnded /\ call.result = "err" /\ Len(fetched) = k)
          /\ b[k].soup = "art" => k = Len(b)

\* C14 witness: every attempt of an ST call gave a document without <article>
\* and the call has ended
C14_Witness ==
    /\ variant = "ST"
    /\ CallEnded
    /\ Len(fetched) = 3
    /\ \A k \in DOMAIN fetched : fetched[k].soup = "noart"

\* C15 (as claimed): whatever its fetches give, a call of any scraper class
\* ends by returning a success record or a failure record for its URL, never
\* by raising.
C15_TotalWrapper ==
    CallEnded => (call.result \in {"ok", "err"} /\ call.url \in Urls)

\* the pages task t has open
PagesOf(t) == {p \in pages : p[1] = t}

\* C12: a task has at most one fetch in flight; its next attempt starts only
\* when it holds no slot and has no page open, and the retry loop moves to
\* attempt k+1 in the step in which attempt k returns and gives its slot back.
C12_SequentialAttempts ==
    [][\A t \in DOMAIN tasks \cap DOMAIN tasks' :
          /\ Cardinality(PagesOf(t)) <= 1
          /\ (~InFetch(t) /\ InFetch(t)')
                => (t \notin holders /\ PagesOf(t) = {} /\ t \in holders')
          /\ (tasks[t].pc = "base" /\ tasks'[t].pc = "base"
                 /\ tasks'[t].attempt = tasks[t].attempt + 1)
                => (t \in holders /\ t \notin holders' /\ semaphore' = semaphore + 1
                       /\ tasks'[t].phase = "wait" /\ PagesOf(t)' = {})]_vars

\* C12 witness: the task created second is in its second attempt while the
\* task created first is still in its first
C12_Witness ==
    \E t1, t2 \in TaskIds :
        /\ t1 < t2
        /\ tasks[t1].pc = "base" /\ tasks[t1].attempt = 0 /\ InFetch(t1)
        /\ tasks[t2].pc = "base" /\ tasks[t2].attempt = 1 /\ InFetch(t2)

\* C16: every open page belongs to a fetch in flight that opened it and has
\* not returned, so there are no more open pages than fetches in flight and
\* none when no fetch is in flight; the contexts stay open during the run.
C16_PageLifetime ==
    /\ \A p \in pages : p[1] \in TaskIds /\ PageOpen(p[1]) /\ p[2] = tasks[p[1]].ctx
                          /\ p[2] \in contexts
    /\ Cardinality(pages) <= Cardinality({t \in TaskIds : InFetch(t)})
    /\ {t \in TaskIds : InFetch(t)} = {} => pages = {}
    /\ Running => contexts = 0..(concurrency - 1)

\* C16 witness: a fetch has returned after a failed attempt and left no page,
\* while another fetch has its page open
C16_Witness ==
    \E t, o \in TaskIds :
        /\ tasks[t].pc = "base" /\ tasks[t].attempt >= 1 /\ ~InFetch(t)
        /\ PagesOf(t) = {}
        /\ PagesOf(o) # {}
        /\ Running

\* C17 (as claimed, for a page budget of 1): once a task of the run is in its
\* third attempt, so that two pages have been fetched, the browser has been
\* torn down and launched again exactly once.
C17_BudgetedRecycling ==
    (Running /\ \E t \in TaskIds : tasks[t].pc = "base" /\ tasks[t].attempt >= 2)
        => launches = 2

\* C19 (as claimed): rotation over the pool: when two fetches have pages open
\* at once, more than one context is in use, and two fetches share a context
\* only when no context of the pool is free.
C19_RoundRobin ==
    LET open == {t \in TaskIds : PageOpen(t)}
    IN /\ (Cardinality(open) >= 2 /\ concurrency >= 2)
              => Cardinality({tasks[t].ctx : t \in open}) >= 2
       /\ \A t1, t2 \in open :
              (t1 # t2 /\ tasks[t1].ctx = tasks[t2].ctx)
                  => \A c \in contexts : \E p \in pages : p[2] = c

\* c is an interleaving of a and b that keeps the order of each
RECURSIVE IsMerge(_, _, _)
IsMerge(a, b, c) ==
    IF c = <<>> THEN a = <<>> /\ b = <<>>
    ELSE \/ a # <<>> /\ Head(a) = Head(c) /\ IsMerge(Tail(a), b, Tail(c))
         \/ b # <<>> /\ Head(b) = Head(c) /\ IsMerge(a, Tail(b), Tail(c))

\* the last operation on the batch was a sweep that went through its entries
SweepEnded == Idle /\ hist # <<>> /\ Last(hist) = [op |-> "sweep", ret |-> "done"]

\* C20: during a sweep every entry gone through has given either one record
\* appended to the success log or itself kept as remaining, and the failure
\* log is untouched; when retry_file has completed, the failure log is exactly
\* the entries that failed again, in their original order, and the success
\* log has gained one record for each of the others.
C20_SweeperRewrite ==
    /\ sweep_pc = "loop" =>
          /\ err_log = err0
          /\ lines = err0
          /\ SubSeq(out_log, 1, Len(out0)) = out0
          /\ IsMerge(UrlsOf(Gained(out_log, out0)), UrlsOf(remaining),
                     UrlsOf(SubSeq(lines, 1, entry - 1)))
    /\ SweepEnded =>
          /\ SubSeq(out_log, 1, Len(out0)) = out0
          /\ err_log = remaining
          /\ IsMerge(UrlsOf(Gained(out_log, out0)), UrlsOf(err_log), UrlsOf(err0))

\* C20 witness: of two entries the first succeeded and the second failed
\* again: the failure log is the second entry alone
C20_Witness ==
    /\ SweepEnded
    /\ Len(err0) = 2
    /\ err0[1].url # err0[2].url
    /\ err_log = <<err0[2]>>
    /\ UrlsOf(Gained(out_log, out0)) = <<err0[1].url>>

\* the lines of a log that are success records for the resume filter: objects
\* with a string article_url, whole on their line
ValidRecords(log) ==
    Filter(log, [i \in DOMAIN log |-> json_loads_splitlines(log[i]) = "record"])

\* the failure tuples a log holds, in order: the values of its lines that
\* are arrays of length > 1
ValidTuples(log) ==
    LET ok == Filter(log, [i \in DOMAIN log |-> json_loads(log[i]) = "tuple"])
    IN [i \in DOMAIN ok |-> parsed(ok[i])]

\* the URLs a run has to schedule when only the valid lines of the success
\* log as it was found count as processed
ExpectedUrls ==
    Filter(NonBlank(input),
           [i \in DOMAIN NonBlank(input) |->
               NonBlank(input)[i] \notin LoggedUrls(ValidRecords(out0))])

\* C21 (as claimed): a malformed line is skipped and never stops a reader:
\* the sweeper goes through exactly the valid failure tuples of the log, in
\* order, and an orchestrator run on a readable input gets through the
\* success log whatever its lines are: its schedule is exactly the input URLs
\* without a valid success record, and it raises only with URLs scheduled
\* (at the launch of the session or inside it), never while reading the log.
C21_MalformedSkipped ==
    /\ sweep_pc = "loop" => lines = ValidTuples(err0)
    /\ (InOrAfterOrch /\ readable) => urls = ExpectedUrls
    /\ (OrchEnded("raise") /\ readable) => urls # <<>>

\* a is the beginning of b
IsPrefix(a, b) == Len(a) <= Len(b) /\ a = SubSeq(b, 1, Len(a))

\* the last operation was a sweep killed at position pc
SweepKilledIn(pc) ==
    Idle /\ hist # <<>> /\ Last(hist) = [op |-> "sweep", ret |-> "killed in " \o pc]

\* the URLs that were swept and failed again and have a record in no log
LostFailures ==
    {remaining[i].url : i \in DOMAIN remaining}
        \ (LoggedUrls(err_log) \cup LoggedUrls(out_log))

\* C22: the window in which a crash of retry_file loses failures is the
\* overwrite: up to the opening of the failure log for writing the log is as
\* it was loaded and no swept failure is lost, whereas from the truncation
\* until the last line is written the log is only the beginning of the
\* entries that failed again, and a crash leaves it so.
C22_CrashWindow ==
    /\ (sweep_pc = "loop" \/ SweepKilledIn("loop"))
          => (err_log = err0 /\ LostFailures = {})
    /\ (sweep_pc = "write" \/ SweepKilledIn("write"))
          => (IsPrefix(err_log, remaining) /\ entry > Len(lines))

\* C22 witness: a sweep of two failures of different URLs, both of which
\* failed again, was killed during the overwrite with one of them written:
\* the other URL has a record in neither log
C22_Witness ==
    /\ SweepKilledIn("write")
    /\ Len(remaining) = 2
    /\ Len(err_log) = 1
    /\ remaining[2].url \in LostFailures
    /\ remaining[2].url \in LoggedUrls(err0)

\* the orchestrator run in progress or last ended touched neither log
LogsUntouched == out_log = out0 /\ err_log = err0

\* C23: a run on a readable input without a non-blank line returns the batch
\* identifier at once: no browser is launched, no task is created, neither
\* log is created or modified; and no run ever schedules a blank line.
C23_EmptyInputNoOp ==
    /\ (InOrAfterOrch /\ readable /\ NonBlank(input) = <<>>)
          => /\ OrchEnded("stem")
             /\ launches = 0
             /\ tasks = <<>> /\ urls = <<>> /\ completed = <<>>
             /\ LogsUntouched
             /\ ~out_exists /\ ~err_exists
    /\ \A t \in TaskIds : tasks[t].url # Blank
    /\ \A i \in DOMAIN urls : urls[i] # Blank
    /\ Len(urls) <= Cardinality({i \in DOMAIN input : input[i] # Blank})

\* C23 witness: a run on an input of blank lines only has returned the batch
\* identifier
C23_Witness ==
    /\ OrchEnded("stem")
    /\ readable
    /\ input # <<>>
    /\ \A i \in DOMAIN input : input[i] = Blank

\* C24: a run ends by returning the batch identifier, by returning None or by
\* raising; it returns None exactly when the input cannot be read, and then
\* nothing was launched or scheduled and neither log was created or touched;
\* it returns the identifier whenever it runs to its end, which it does at
\* once on an input without URLs or whose URLs are all in the success log.
C24_OrchestratorResult ==
    /\ \A i \in DOMAIN hist :
          hist[i].op = "orch"
              => /\ hist[i].ret \in {"stem", "None", "raise"}
                 /\ hist[i].ret = "None" <=> ~readable
    /\ OrchEnded("None")
          => /\ launches = 0
             /\ tasks = <<>> /\ urls = <<>> /\ completed = <<>>
             /\ LogsUntouched
             /\ ~out_exists /\ ~err_exists
    /\ OrchEnded("stem") => consumed = Len(urls)
    /\ (InOrAfterOrch /\ readable /\ NotProcessed(NonBlank(input), out0) = <<>>)
          => (OrchEnded("stem") /\ launches = 0 /\ LogsUntouched)

\* C24 witness: a run on an unreadable file with a URL has returned None
C24_Witness ==
    /\ OrchEnded("None")
    /\ ~readable
    /\ NonBlank(input) # <<>>

\* the run ended because opening a log raised: the session was entered and
\* left without a task
OpenFailed == OrchEnded("raise") /\ launches = 1 /\ tasks = <<>>

\* the run ended because writing or flushing a line raised
WriteFailed == OrchEnded("raise") /\ pending # NoItem

\* C25 (as claimed): when opening or writing a log fails, the run returns
\* None to the worker, and the worker ends with a status.
C25_OutputErrorReturnsNone ==
    \A f \in DOMAIN wpc :
        ((OpenFailed \/ WriteFailed) /\ wpc[f] # "running")
            => (wret[f] = "None" /\ wpc[f] \in {"rename", "returned"})

\* C26 (as claimed): a worker whose run returned the batch identifier and
\* that has moved the input file to SEEN_DIR leaves both logs in existence.
C26_TwoLogs ==
    \A f \in DOMAIN wpc :
        (wpc[f] = "returned" /\ wret[f] = "stem" /\ f \in seen)
            => (out_exists /\ err_exists)

\* C27 (as claimed): every listed file is taken by the pool in the order of
\* submission and run at most once, and the number of runs active at once
\* never exceeds the fixed pool size, however many files are pending.
C27_FixedPool ==
    /\ Active <= MAX_PARALLEL_TXT_FILES
    /\ \A f, g \in Files : (f < g /\ wpc[g] # "queued") => wpc[f] # "queued"
    /\ \A f \in Files : wpc[f] \in {"queued", "running"} <=> wret[f] = "-"

\* __aexit__ of the session followed on its own has ended, by returning or
\* by raising
TeardownEnded == session.pc \in {"left", "exit raised"}

\* C28 (as claimed): whatever close fails, when the teardown has ended every
\* context of the pool is closed, the browser is closed and the driver is
\* stopped; a failing close of a context never ends the teardown.
C28_BestEffortTeardown ==
    /\ TeardownEnded
          => (session.open = {} /\ ~session.browser /\ ~session.playwright)
    /\ ~(session.pc = "exit raised" /\ session.i < concurrency)

\* the URLs the run in progress or last ended scheduled
Scheduled == {urls[i] : i \in DOMAIN urls}

\* C29 (as claimed): a run on a readable input schedules exactly the input
\* URLs that had no success record when it started, so that, the success log
\* only growing, each run schedules a subset of what the run before it
\* scheduled; and a run started when every input URL has a success record
\* schedules nothing, launches no browser and leaves both logs as they were.
C29_Convergence ==
    (InOrAfterOrch /\ readable)
        => /\ Scheduled = InputUrls \ LoggedUrls(out0)
           /\ InputUrls \subseteq LoggedUrls(out0)
                 => (urls = <<>> /\ tasks = <<>> /\ launches = 0 /\ LogsUntouched)

\* a sweep is in progress or was the last operation to end
InOrAfterSweep ==
    /\ orch_pc = "idle"
    /\ sweep_pc # "idle" \/ (hist # <<>> /\ Last(hist).op = "sweep")

\* C30: during and after an orchestrator run each log is what it was when
\* the run started, followed by the lines the run appended; during and after
\* a sweep the same holds of the success log, and the failure log is as it
\* was found until the sweep replaces it at its end.
C30_AppendOnly ==
    /\ InOrAfterOrch => (IsPrefix(out0, out_log) /\ IsPrefix(err0, err_log))
    /\ InOrAfterSweep => IsPrefix(out0, out_log)
    /\ sweep_pc # "idle" => err_log = err0
    /\ (InOrAfterSweep /\ sweep_pc = "idle" /\ err_log # err0) => SweepEnded

\* C30 witness: a second run, started on logs that both held lines, has
\* appended a failure record after those of the first
C30_Witness ==
    /\ OrchEnded("stem")
    /\ out0 # <<>>
    /\ err0 # <<>>
    /\ Len(err_log) > Len(err0)
    /\ IsPrefix(err0, err_log)

\* the number of lines of the input file that hold URL u
LinesOf(u) == Cardinality({i \in DOMAIN input : input[i] = u})

\* the number of tasks the run created for URL u
TasksOf(u) == Cardinality({t \in TaskIds : tasks[t].url = u})

\* C31 (as claimed): within a run no URL is fetched by more than one task and
\* no URL receives more than one record, whatever the input.
C31_ScheduledOnce ==
    InOrAfterOrch =>
        \A u \in Urls : TasksOf(u) <= 1 /\ GainedCount(u) <= 1

\* C31 (amended): a run creates one task per non-blank input line whose URL
\* is not in the success log as read, and a task gives at most one record:
\* a URL on k lines has k tasks and at most k records, and on an input of
\* pairwise distinct URLs no URL has more than one task or record.
C31_ScheduledOncePerLine ==
    InOrAfterOrch =>
        \A u \in Urls :
            LET k == LinesOf(u)
                n == TasksOf(u)
            IN /\ Running => n = IF u \in processed_urls(out0) THEN 0 ELSE k
               /\ n <= k
               /\ GainedCount(u) <= n
               /\ Distinct(input) => k <= 1

\* C31 witness: a completed run on an input holding the same URL on two
\* lines has written two records for it
C31_Witness ==
    /\ OrchEnded("stem")
    /\ input = <<1, 1>>
    /\ TasksOf(1) = 2
    /\ GainedCount(1) = 2

IsFollowFetch(f) == f.pc = "follow"
\* the second _fetch_page_content calls of the call (BT_Scraper, Tabla_Scraper)
FollowFetches == SelectSeq(fetched, IsFollowFetch)

\* the base scrape of the call returned a success record: the subclass went
\* on to its own fetch
BaseSucceeded == FollowFetches # <<>>

\* C32: a BT_Scraper call whose base scrape returned a success record makes
\* one follow-up fetch, never a second, and ends by returning the success
\* record (with or without new images), whatever the follow-up fetch gave.
C32_NeverDowngrades ==
    (variant = "BT" /\ CallEnded /\ BaseSucceeded)
        => /\ Len(FollowFetches) = 1
           /\ call.result = "ok"

\* C33: a Tabla_Scraper call never raises and makes at most one follow-up
\* fetch; it returns a success record only when the base scrape succeeded and
\* the follow-up fetch gave a document with <article>; when the follow-up
\* fetch gave anything else (no document, no <article>, an exception) it
\* returns a failure record for the URL it was given.
C33_TablaRequiresBoth ==
    (variant = "Tabla" /\ CallEnded)
        => /\ call.result \in {"ok", "err"}
           /\ Len(FollowFetches) <= 1
           /\ call.result = "ok"
                 => (BaseSucceeded /\ FollowFetches[1].soup = "art")
           /\ (BaseSucceeded /\ FollowFetches[1].soup # "art")
                 => (call.result = "err" /\ call.url = fetched[1].url)

\* C33 witness: the base scrape of a Tabla call succeeded at its first fetch,
\* the follow-up fetch returned no document, and the call returned a failure
\* record
C33_Witness ==
    /\ variant = "Tabla"
    /\ CallEnded
    /\ Len(fetched) = 2
    /\ fetched[1].soup = "art"
    /\ FollowFetches # <<>>
    /\ FollowFetches[1].soup = "none"
    /\ call.result = "err"

\* task t is suspended in "async with self.semaphore"
Waiting(t) == t \in TaskIds /\ tasks[t].pc \in {"base", "follow"} /\ tasks[t].phase = "wait"

\* C34: in a session that is not killed, a task waiting on the fetch
\* semaphore eventually holds a slot, every task eventually finishes, and the
\* run eventually returns the batch identifier with every result consumed.
C34_Termination ==
    /\ \A t \in 1..NumLines : Waiting(t) ~> (t \in holders)
    /\ \A t \in 1..NumLines : (t \in TaskIds) ~> (t \in TaskIds /\ tasks[t].pc = "done")
    /\ <>(OrchEnded("stem") /\ consumed = Len(urls))

\* the tasks inside a _fetch_page_content call past the acquisition
Fetching == {t \in TaskIds : InFetch(t)}

\* C35: the fetches in flight and the free count of the fetch semaphore add
\* up to `concurrency`; the slots are held by exactly the tasks inside a
\* fetch, so a task that left a fetch by any path (result, handled error,
\* exception of new_page) has given its slot back; and between the steps of
\* the tasks the context semaphore is free.
C35_SlotConservation ==
    /\ semaphore \in 0..concurrency
    /\ Cardinality(Fetching) + semaphore = concurrency
    /\ holders = Fetching
    /\ context_semaphore = concurrency

\* C35 witness: with one slot, the follow-up fetch of a BT task has raised,
\* and the second task is inside a fetch with the slot the first gave back
C35_Witness ==
    /\ variant = "BT"
    /\ concurrency = 1
    /\ Running
    /\ \E t \in TaskIds : tasks[t].pc = "done" /\ tasks[t].result = "exc"
    /\ \E t \in TaskIds : InFetch(t)
    /\ semaphore = 0

RECURSIVE IsSubseq(_, _)
\* a is b with some of its elements left out
IsSubseq(a, b) ==
    IF a = <<>> THEN TRUE
    ELSE IF b = <<>> THEN FALSE
    ELSE IF Head(a) = Head(b) THEN IsSubseq(Tail(a), Tail(b))
    ELSE IsSubseq(a, Tail(b))

\* C36: after a completed retry_file every line of the failure log is a
\* failure tuple, and its entries are, in order, entries the log held before
\* the sweep: none is added, none altered, none replaced by the failure of
\* the new attempt. Hence a sweep either shortens the sequence of entries or
\* leaves it as it was, and only finitely many sweeps can change it.
C36_SweepsOnlyShrink ==
    SweepEnded =>
        /\ \A i \in DOMAIN err_log : json_loads(err_log[i]) = "tuple"
        /\ IsSubseq(ValidTuples(err_log), ValidTuples(err0))
        /\ Len(ValidTuples(err_log)) = Len(ValidTuples(err0))
              => ValidTuples(err_log) = ValidTuples(err0)

\* C36 witness: a sweep over a log of two entries, the first in a spelling of
\* its own, has completed: the second entry succeeded and is gone, the first
\* failed again and is the only line left
C36_Witness ==
    /\ SweepEnded
    /\ err0 = <<DumpErrRaw(1), DumpErr(2)>>
    /\ ValidTuples(err_log) = <<parsed(DumpErrRaw(1))>>
    /\ 2 \in LoggedUrls(Gained(out_log, out0))

\* the failure log as the sweep in progress or last ended found it holds no
\* entry that can be loaded: it cannot be read to its end, is empty, or has
\* no line that is a failure tuple
NothingToSweep == ~err_readable \/ ValidTuples(err0) = <<>>

\* C37: a sweep of a failure log that is unreadable, empty or without a valid
\* entry returns at once, before the scraper session is entered, with both
\* logs as they were; and while any sweep goes through its entries the
\* failure log is as the sweep found it.
C37_NothingToSweep ==
    /\ (InOrAfterSweep /\ NothingToSweep)
          => /\ Idle
             /\ Last(hist) = [op |-> "sweep", ret |-> "nolines"]
             /\ err_log = err0
             /\ out_log = out0
    /\ sweep_pc = "loop" => err_log = err0

\* the batch has seen one orchestrator run, which completed, and after it
\* only sweeps, each of which returned
OrchThenSweeps ==
    /\ Idle
    /\ hist # <<>>
    /\ hist[1] = [op |-> "orch", ret |-> "stem"]
    /\ \A i \in 2..Len(hist) :
          hist[i].op = "sweep" /\ hist[i].ret \in {"done", "nolines"}

\* C38: from empty logs and an input of pairwise distinct URLs, after one
\* completed orchestrator run and any number of completed sweeps, no URL has
\* two records in the success log, and none has a success record and a
\* failure entry left to sweep.
C38_NoDuplicateSuccess ==
    (OrchThenSweeps /\ Distinct(input))
        => \A u \in Urls :
              /\ CountUrl(out_log, u) <= 1
              /\ CountUrl(out_log, u) + CountUrl(err_log, u) <= 1

\* C38 witness: of two URLs one succeeded in the orchestrator run and the
\* other failed there and succeeded in the sweep: one success record each
C38_Witness ==
    /\ OrchThenSweeps
    /\ Distinct(input)
    /\ Len(hist) = 2
    /\ hist[2].ret = "done"
    /\ Len(out0) = 1
    /\ Len(out_log) = 2
    /\ \A u \in InputUrls : CountUrl(out_log, u) = 1

\* the run of the batch is over and returned: every result was consumed,
\* every record is in its log, nothing is being written, and the session has
\* been left (no context, no page)
RunOver ==
    /\ orch_pc = "idle"
    /\ hist # <<>>
    /\ Last(hist).op = "orch"
    /\ Last(hist).ret \in {"stem", "None"}
    /\ \A t \in TaskIds : tasks[t].pc = "done"
    /\ consumed = Len(urls)
    /\ pending = NoItem
    /\ Durable(consumed)
    /\ contexts = {}
    /\ pages = {}

\* C39: a worker that is at its rename, or whose file is in SEEN_DIR, has a
\* run that is over: all records written and flushed, logs and session left,
\* no task in flight.
C39_MarkerLast ==
    \A f \in DOMAIN wpc : (wpc[f] = "rename" \/ f \in seen) => RunOver

\* C39 witness: the file of a run of two URLs, one scraped and one failed, has
\* been moved to SEEN_DIR, with one line in each log
C39_Witness ==
    /\ 1 \in seen
    /\ Len(urls) = 2
    /\ Len(Gained(out_log, out0)) = 1
    /\ Len(Gained(err_log, err0)) = 1

\* the lines of f the claim says are written: those that are valid JSON with
\* a non-empty article_url, the first of each article_url only, in the order
\* of the file (as strip() leaves them)
HasUrl(line) == line.json \in {"record", "unhashable"}
FirstByUrl(f) ==
    LET keep == [i \in DOMAIN f |->
                    /\ HasUrl(f[i])
                    /\ \A j \in 1..(i - 1) :
                          ~(f[j].json = f[i].json /\ f[j].url = f[i].url)]
        kept == Filter(f, keep)
    IN [i \in DOMAIN kept |-> strip(kept[i])]

\* a call of remove_duplicates_jsonl_by_url has ended, by return or exception
DedupEnded == dedup_pc \in {"done", "raise"}

\* C40: When remove_duplicates_jsonl_by_url has ended, then for every .jsonl
\* file the directory held at the call, the file of the new name holds the
\* lines of the original that are valid JSON with a non-empty article_url,
\* the first occurrence of each article_url only, in their original order;
\* the original file holds what it held; and the operation applied to the
\* new file gives the lines of the new file.
C40_DedupByKey ==
    DedupEnded =>
        \A filename \in DOMAIN dir0 :
            endswith_jsonl(filename) =>
                /\ new_filename(filename) \in DOMAIN directory
                /\ directory[new_filename(filename)] = FirstByUrl(dir0[filename])
                /\ directory[filename] = dir0[filename]
                /\ LET again == read_lines(directory[new_filename(filename)],
                                           1, {}, <<>>)
                   IN ~again.raised
                      /\ again.unique_lines = directory[new_filename(filename)]

====
